---- MODULE Spec2Model ----
(***************************************************************************)
(* A model of the beacon-chain state transition of ream                    *)
(* (crates/common/consensus/src/deneb/beacon_state.rs and helpers.rs).     *)
(*                                                                         *)
(* `state` is the BeaconState the operations mutate, `pre` is the          *)
(* BeaconState as it was when the last operation was called, and `op`      *)
(* records that call: its name, its arguments, how it ended ("ok", "err"   *)
(* for a returned Err, "panic" for a Rust panic) and what it returned.     *)
(* `hist` records what a property about several calls needs of the past.   *)
(* Indices are 0-based as in the source; At(s, i) reads s[i].              *)
(***************************************************************************)
EXTENDS Integers, Sequences, FiniteSets, TLC

VARIABLES state, pre, op, hist

vars == <<state, pre, op, hist>>

----------------------------------------------------------------------------
(* Program constants (fork_choice/helpers/constants.rs).  Those marked     *)
(* "scaled" keep their role but are smaller than on mainnet.               *)

GENESIS_EPOCH == 0
\* u64::MAX on mainnet; scaled: larger than every epoch the model reaches
FAR_FUTURE_EPOCH == 255
\* 32 on mainnet; scaled
SLOTS_PER_EPOCH == 4
\* 8192 on mainnet; scaled
SLOTS_PER_HISTORICAL_ROOT == 16
\* 10^9 Gwei on mainnet; scaled
EFFECTIVE_BALANCE_INCREMENT == 4
\* 32 * 10^9 Gwei on mainnet; scaled
MAX_EFFECTIVE_BALANCE == 8
JUSTIFICATION_BITS_LENGTH == 4
TIMELY_SOURCE_FLAG_INDEX == 0
TIMELY_TARGET_FLAG_INDEX == 1
TIMELY_HEAD_FLAG_INDEX == 2
BLS_WITHDRAWAL_PREFIX == 0
ETH1_ADDRESS_WITHDRAWAL_PREFIX == 1
\* 16 on mainnet; scaled
MAX_WITHDRAWALS_PER_PAYLOAD == 2
\* 16384 on mainnet; scaled
MAX_VALIDATORS_PER_WITHDRAWALS_SWEEP == 3
\* 4 on mainnet; scaled
MAX_SEED_LOOKAHEAD == 1
\* 256 on mainnet; scaled
MIN_VALIDATOR_WITHDRAWABILITY_DELAY == 2
\* 256 on mainnet; scaled
SHARD_COMMITTEE_PERIOD == 2
\* 4 on mainnet; scaled
MIN_PER_EPOCH_CHURN_LIMIT == 2
\* 65536 on mainnet; scaled
CHURN_LIMIT_QUOTIENT == 4
\* 8192 on mainnet; scaled
EPOCHS_PER_SLASHINGS_VECTOR == 4
\* scaled
MIN_SLASHING_PENALTY_QUOTIENT == 4
\* 512 on mainnet; scaled
WHISTLEBLOWER_REWARD_QUOTIENT == 4
PROPOSER_WEIGHT == 8
WEIGHT_DENOMINATOR == 64
HYSTERESIS_QUOTIENT == 4
HYSTERESIS_DOWNWARD_MULTIPLIER == 1
HYSTERESIS_UPWARD_MULTIPLIER == 3
MIN_ATTESTATION_INCLUSION_DELAY == 1
\* 128 on mainnet; scaled
TARGET_COMMITTEE_SIZE == 1
\* 64 on mainnet; scaled
MAX_COMMITTEES_PER_SLOT == 2
BASE_REWARD_FACTOR == 64
\* TIMELY_SOURCE_WEIGHT, TIMELY_TARGET_WEIGHT, TIMELY_HEAD_WEIGHT
PARTICIPATION_FLAG_WEIGHTS == <<14, 26, 14>>
\* 90 on mainnet; scaled
SHUFFLE_ROUND_COUNT == 2
\* 2^8 - 1
MAX_RANDOM_BYTE == 255
SYNC_REWARD_WEIGHT == 2
\* 512 on mainnet; scaled
SYNC_COMMITTEE_SIZE == 2

----------------------------------------------------------------------------
(* Bounds of the model *)

\* largest balance a validator of an initial state holds
MaxBalance == 3
\* largest delta passed to increase_balance / decrease_balance
MaxDelta == 2
\* balances never grow past this in the model (guards of the increasing actions)
BalanceCap == 6

----------------------------------------------------------------------------
(* Helpers *)

Min(a, b) == IF a <= b THEN a ELSE b

Max(a, b) == IF a >= b THEN a ELSE b

At(s, i) == s[i + 1]

Indices(s) == 0 .. (Len(s) - 1)

\* the bit of value 2^k of the byte b
BitSet(b, k) == (b \div (2 ^ k)) % 2 = 1

\* bitwise OR of two bytes
BitOr(a, b) ==
    LET bit(k) == IF BitSet(a, k) \/ BitSet(b, k) THEN 2 ^ k ELSE 0
    IN  bit(0) + bit(1) + bit(2) + bit(3) + bit(4) + bit(5) + bit(6) + bit(7)

\* bitwise AND of two bytes
BitAnd(a, b) ==
    LET bit(k) == IF BitSet(a, k) /\ BitSet(b, k) THEN 2 ^ k ELSE 0
    IN  bit(0) + bit(1) + bit(2) + bit(3) + bit(4) + bit(5) + bit(6) + bit(7)

----------------------------------------------------------------------------
(* Types *)

Checkpoint(epoch, root) == [epoch |-> epoch, root |-> root]

\* a 32-byte withdrawal_credentials value: prefix byte, 11 middle bytes, 20 tail bytes
Credentials(prefix, middle, tail) ==
    <<prefix>> \o [i \in 1 .. 11 |-> middle] \o [i \in 1 .. 20 |-> tail]

Validator(pubkey, credentials, effective_balance, slashed, eligibility, activation, exit, withdrawable) ==
    [pubkey |-> pubkey,
     withdrawal_credentials |-> credentials,
     effective_balance |-> effective_balance,
     slashed |-> slashed,
     activation_eligibility_epoch |-> eligibility,
     activation_epoch |-> activation,
     exit_epoch |-> exit,
     withdrawable_epoch |-> withdrawable]

\* a validator activated at genesis that never exits
GenesisValidator(pubkey) ==
    Validator(pubkey, Credentials(BLS_WITHDRAWAL_PREFIX, 0, pubkey), MAX_EFFECTIVE_BALANCE,
              FALSE, GENESIS_EPOCH, GENESIS_EPOCH, FAR_FUTURE_EPOCH, FAR_FUTURE_EPOCH)

\* a root of 32 zero bytes
ZeroRoot == <<>>

BeaconBlockHeader(slot, proposer_index, parent_root, state_root, body_root) ==
    [slot |-> slot, proposer_index |-> proposer_index, parent_root |-> parent_root,
     state_root |-> state_root, body_root |-> body_root]

\* the fields of BeaconState the operations of this model read or write
BeaconState(slot, validators, balances) ==
    [slot |-> slot,
     latest_block_header |-> BeaconBlockHeader(0, 0, ZeroRoot, ZeroRoot, ZeroRoot),
     slashings |-> [i \in 1 .. EPOCHS_PER_SLASHINGS_VECTOR |-> 0],
     eth1_deposit_index |-> Len(validators),
     validators |-> validators,
     balances |-> balances,
     block_roots |-> [i \in 1 .. SLOTS_PER_HISTORICAL_ROOT |-> 0],
     previous_epoch_participation |-> [i \in 1 .. Len(validators) |-> 0],
     current_epoch_participation |-> [i \in 1 .. Len(validators) |-> 0],
     justification_bits |-> [i \in 1 .. JUSTIFICATION_BITS_LENGTH |-> FALSE],
     previous_justified_checkpoint |-> Checkpoint(GENESIS_EPOCH, 0),
     current_justified_checkpoint |-> Checkpoint(GENESIS_EPOCH, 0),
     finalized_checkpoint |-> Checkpoint(GENESIS_EPOCH, 0),
     inactivity_scores |-> [i \in 1 .. Len(validators) |-> 0],
     next_withdrawal_index |-> 0,
     next_withdrawal_validator_index |-> 0]

Call(name, args, result, ret) ==
    [name |-> name, args |-> args, result |-> result, ret |-> ret]

NoCall == Call("init", <<>>, "ok", <<>>)

----------------------------------------------------------------------------
(* Balances: BeaconState::increase_balance, BeaconState::decrease_balance *)

increase_balance(s, index, delta) ==
    IF index < Len(s.balances)
    THEN [s EXCEPT !.balances[index + 1] = @ + delta]
    ELSE s

\* `let _ = balance.saturating_sub(delta);` computes the difference and drops it
decrease_balance(s, index, delta) ==
    IF index < Len(s.balances)
    THEN LET dropped == Max(0, At(s.balances, index) - delta)
         IN  s
    ELSE s

IncreaseBalance ==
    \E index \in 0 .. Len(state.balances), delta \in 0 .. MaxDelta :
        /\ index < Len(state.balances) => At(state.balances, index) + delta <= BalanceCap
        /\ pre' = state
        /\ state' = increase_balance(state, index, delta)
        /\ UNCHANGED hist
        /\ op' = Call("increase_balance", [index |-> index, delta |-> delta], "ok", <<>>)

DecreaseBalance ==
    \E index \in 0 .. Len(state.balances), delta \in 0 .. MaxDelta :
        /\ pre' = state
        /\ state' = decrease_balance(state, index, delta)
        /\ UNCHANGED hist
        /\ op' = Call("decrease_balance", [index |-> index, delta |-> delta], "ok", <<>>)

InitBalance ==
    /\ \E n \in 1 .. 2 :
        \E balances \in [1 .. n -> 0 .. MaxBalance] :
            state = BeaconState(SLOTS_PER_EPOCH, [i \in 1 .. n |-> GenesisValidator(i)],
                                balances)
    /\ pre = state
    /\ op = NoCall
    /\ hist = 0

NextBalance == IncreaseBalance \/ DecreaseBalance

SpecBalance == InitBalance /\ [][NextBalance]_vars

\* C1: decrease_balance(index, delta) with index < |balances| sets balances[index] to
\* max(0, balances[index] - delta) and leaves every other balance and every other
\* field of the state unchanged.
C1_DecreaseBalanceSaturates ==
    (op.name = "decrease_balance" /\ op.args.index < Len(pre.balances)) =>
        state = [pre EXCEPT !.balances[op.args.index + 1] =
                                Max(0, At(pre.balances, op.args.index) - op.args.delta)]

----------------------------------------------------------------------------
(* Epochs, activity and participation flags *)

compute_epoch_at_slot(slot) == slot \div SLOTS_PER_EPOCH

compute_start_slot_at_epoch(epoch) == epoch * SLOTS_PER_EPOCH

get_current_epoch(s) == compute_epoch_at_slot(s.slot)

get_previous_epoch(s) ==
    LET current_epoch == get_current_epoch(s)
    IN  IF current_epoch = GENESIS_EPOCH THEN GENESIS_EPOCH ELSE current_epoch - 1

\* helpers.rs compares the epoch with activation_eligibility_epoch
is_active_validator(validator, epoch) ==
    validator.activation_eligibility_epoch <= epoch /\ epoch < validator.exit_epoch

\* the indices i (in increasing order) with is_active_validator(validators[i], epoch)
get_active_validator_indices(s, epoch) ==
    LET active(i) == is_active_validator(At(s.validators, i), epoch)
    IN  SelectSeq([k \in 1 .. Len(s.validators) |-> k - 1], active)

\* `let flag = 2 << flag_index; flags | flag` on a u8
add_flag(flags, flag_index) ==
    LET flag == (2 * (2 ^ flag_index)) % 256
    IN  BitOr(flags, flag)

\* `let flag = 2 << flag_index; flags & flag == flag` on a u8
has_flag(flags, flag_index) ==
    LET flag == (2 * (2 ^ flag_index)) % 256
    IN  BitAnd(flags, flag) = flag

Range(seq) == {seq[k] : k \in 1 .. Len(seq)}

Outcome(result, val) == [result |-> result, val |-> val]

\* Err for an epoch that is neither the previous nor the current one; a panic when an
\* active validator has no entry in the participation list (`epoch_participation[i]`);
\* otherwise the participating active indices that pass `.filter(|&index| ...slashed)`
get_unslashed_participating_indices(s, flag_index, epoch) ==
    IF ~(epoch = get_previous_epoch(s) \/ epoch = get_current_epoch(s))
    THEN Outcome("err", {})
    ELSE LET epoch_participation ==
                 IF epoch = get_current_epoch(s)
                 THEN s.current_epoch_participation
                 ELSE s.previous_epoch_participation
             active_validator_indices == Range(get_active_validator_indices(s, epoch))
         IN  IF \E i \in active_validator_indices : i >= Len(epoch_participation)
             THEN Outcome("panic", {})
             ELSE LET participating_indices ==
                          {i \in active_validator_indices :
                               has_flag(At(epoch_participation, i), flag_index)}
                  IN  Outcome("ok", {index \in participating_indices :
                                         At(s.validators, index).slashed})

----------------------------------------------------------------------------
(* Registry queries on a state with validators at every stage of their life *)

\* number of validators of the registry states
MaxValidators == 2
\* the registry states are at this epoch
RegistryEpoch == 2

\* the participation byte after add_flag for every flag index of S
FlagsOf(S) ==
    LET a == IF TIMELY_SOURCE_FLAG_INDEX \in S THEN add_flag(0, TIMELY_SOURCE_FLAG_INDEX) ELSE 0
        b == IF TIMELY_TARGET_FLAG_INDEX \in S THEN add_flag(a, TIMELY_TARGET_FLAG_INDEX) ELSE a
    IN  IF TIMELY_HEAD_FLAG_INDEX \in S THEN add_flag(b, TIMELY_HEAD_FLAG_INDEX) ELSE b

\* the stages of a validator's life: deposited, eligible and waiting for activation,
\* activation scheduled, active, slashed and exiting, exited
Lifecycles(pubkey) ==
    LET c == Credentials(BLS_WITHDRAWAL_PREFIX, 0, pubkey)
        e == RegistryEpoch
    IN  {Validator(pubkey, c, MAX_EFFECTIVE_BALANCE, FALSE, FAR_FUTURE_EPOCH, FAR_FUTURE_EPOCH, FAR_FUTURE_EPOCH, FAR_FUTURE_EPOCH),
         Validator(pubkey, c, MAX_EFFECTIVE_BALANCE, FALSE, e - 1, FAR_FUTURE_EPOCH, FAR_FUTURE_EPOCH, FAR_FUTURE_EPOCH),
         Validator(pubkey, c, MAX_EFFECTIVE_BALANCE, FALSE, e - 1, e + 1, FAR_FUTURE_EPOCH, FAR_FUTURE_EPOCH),
         Validator(pubkey, c, MAX_EFFECTIVE_BALANCE, FALSE, GENESIS_EPOCH, GENESIS_EPOCH, FAR_FUTURE_EPOCH, FAR_FUTURE_EPOCH),
         Validator(pubkey, c, MAX_EFFECTIVE_BALANCE, TRUE, GENESIS_EPOCH, GENESIS_EPOCH, e + 1, e + 2),
         Validator(pubkey, c, MAX_EFFECTIVE_BALANCE, FALSE, GENESIS_EPOCH, GENESIS_EPOCH, e, e + 1)}

InitRegistry ==
    /\ \E validators \in [1 .. MaxValidators -> UNION {Lifecycles(k) : k \in 1 .. MaxValidators}] :
        \E previous \in [1 .. MaxValidators -> {FlagsOf({}), FlagsOf({TIMELY_TARGET_FLAG_INDEX})}] :
            \E current \in [1 .. MaxValidators -> {FlagsOf({}), FlagsOf({TIMELY_SOURCE_FLAG_INDEX, TIMELY_TARGET_FLAG_INDEX})}] :
                /\ \A k \in 1 .. MaxValidators : validators[k].pubkey = k
                /\ state = [BeaconState(compute_start_slot_at_epoch(RegistryEpoch) + 1, validators,
                                        [k \in 1 .. MaxValidators |-> MAX_EFFECTIVE_BALANCE])
                                EXCEPT !.previous_epoch_participation = previous,
                                       !.current_epoch_participation = current]
    /\ pre = state
    /\ op = NoCall
    /\ hist = 0

IsActiveValidator ==
    \E index \in Indices(state.validators), epoch \in 0 .. RegistryEpoch + 1 :
        /\ pre' = state
        /\ state' = state
        /\ UNCHANGED hist
        /\ op' = Call("is_active_validator", [index |-> index, epoch |-> epoch], "ok",
                      is_active_validator(At(state.validators, index), epoch))

GetActiveValidatorIndices ==
    \E epoch \in 0 .. RegistryEpoch + 1 :
        /\ pre' = state
        /\ state' = state
        /\ UNCHANGED hist
        /\ op' = Call("get_active_validator_indices", [epoch |-> epoch], "ok",
                      get_active_validator_indices(state, epoch))

GetUnslashedParticipatingIndices ==
    \E flag_index \in {TIMELY_SOURCE_FLAG_INDEX, TIMELY_TARGET_FLAG_INDEX, TIMELY_HEAD_FLAG_INDEX},
       epoch \in 0 .. RegistryEpoch + 1 :
        LET r == get_unslashed_participating_indices(state, flag_index, epoch)
        IN  /\ pre' = state
            /\ state' = state
            /\ UNCHANGED hist
            /\ op' = Call("get_unslashed_participating_indices",
                          [flag_index |-> flag_index, epoch |-> epoch], r.result, r.val)

NextRegistry == IsActiveValidator \/ GetActiveValidatorIndices \/ GetUnslashedParticipatingIndices

SpecRegistry == InitRegistry /\ [][NextRegistry]_vars

\* the activity predicate of the specification: activation_epoch <= epoch < exit_epoch
ActiveAt(validator, epoch) == validator.activation_epoch <= epoch /\ epoch < validator.exit_epoch

\* C2: for the previous or the current epoch, get_unslashed_participating_indices returns
\* exactly the indices of the validators that are active at that epoch, have the flag set
\* in that epoch's participation list and are not slashed; for any other epoch it
\* returns an error.
C2_UnslashedParticipatingIndices ==
    op.name = "get_unslashed_participating_indices" =>
        LET epoch == op.args.epoch
            participation == IF epoch = get_current_epoch(pre)
                             THEN pre.current_epoch_participation
                             ELSE pre.previous_epoch_participation
        IN  IF epoch \in {get_previous_epoch(pre), get_current_epoch(pre)}
            THEN /\ op.result = "ok"
                 /\ op.ret = {i \in Indices(pre.validators) :
                                  /\ ActiveAt(At(pre.validators, i), epoch)
                                  /\ has_flag(At(participation, i), op.args.flag_index)
                                  /\ ~At(pre.validators, i).slashed}
            ELSE op.result = "err"

\* C7: is_active_validator(v, epoch) is true exactly when
\* v.activation_epoch <= epoch < v.exit_epoch, and get_active_validator_indices(epoch)
\* lists exactly the validators for which that holds, so a validator whose activation
\* is still in the future is not counted as active.
C7_ActiveIffActivated ==
    /\ op.name = "is_active_validator" =>
           (op.ret <=> ActiveAt(At(pre.validators, op.args.index), op.args.epoch))
    /\ op.name = "get_active_validator_indices" =>
           Range(op.ret) = {i \in Indices(pre.validators) :
                                ActiveAt(At(pre.validators, i), op.args.epoch)}

----------------------------------------------------------------------------
(* Justification and finalization *)

get_block_root_at_slot(s, slot) ==
    IF slot < s.slot /\ s.slot <= slot + SLOTS_PER_HISTORICAL_ROOT
    THEN Outcome("ok", At(s.block_roots, slot % SLOTS_PER_HISTORICAL_ROOT))
    ELSE Outcome("err", 0)

get_block_root(s, epoch) == get_block_root_at_slot(s, compute_start_slot_at_epoch(epoch))

RECURSIVE SumEffectiveBalance(_, _)
SumEffectiveBalance(s, indices) ==
    IF indices = {}
    THEN 0
    ELSE LET i == CHOOSE x \in indices : TRUE
         IN  At(s.validators, i).effective_balance + SumEffectiveBalance(s, indices \ {i})

get_total_balance(s, indices) == Max(EFFECTIVE_BALANCE_INCREMENT, SumEffectiveBalance(s, indices))

get_total_active_balance(s) ==
    get_total_balance(s, Range(get_active_validator_indices(s, get_current_epoch(s))))

\* `for i in 1..JUSTIFICATION_BITS_LENGTH { bits.set(i, bits.get(i - 1)) }`, from index i on:
\* each step reads the bit the step before has just written
RECURSIVE copy_bits_up(_, _)
copy_bits_up(bits, i) ==
    IF i >= JUSTIFICATION_BITS_LENGTH
    THEN bits
    ELSE copy_bits_up([bits EXCEPT ![i + 1] = bits[i]], i + 1)

\* the loop, then `justification_bits.set(0, false)`
shift_justification_bits(bits) == [copy_bits_up(bits, 1) EXCEPT ![1] = FALSE]

\* the four finalization rules, applied in the order of the source (a later one overwrites)
finalize(s, old_previous_justified_checkpoint, old_current_justified_checkpoint) ==
    LET current_epoch == get_current_epoch(s)
        bits == s.justification_bits
        f0 == s.finalized_checkpoint
        f1 == IF bits[2] /\ bits[3] /\ bits[4] /\ old_previous_justified_checkpoint.epoch + 3 = current_epoch
              THEN old_previous_justified_checkpoint ELSE f0
        f2 == IF bits[2] /\ bits[3] /\ old_previous_justified_checkpoint.epoch + 2 = current_epoch
              THEN old_previous_justified_checkpoint ELSE f1
        f3 == IF bits[1] /\ bits[2] /\ bits[3] /\ old_current_justified_checkpoint.epoch + 2 = current_epoch
              THEN old_current_justified_checkpoint ELSE f2
        f4 == IF bits[1] /\ bits[2] /\ old_current_justified_checkpoint.epoch + 1 = current_epoch
              THEN old_current_justified_checkpoint ELSE f3
    IN  [s EXCEPT !.finalized_checkpoint = f4]

\* as weigh_justification_and_finalization, but the current epoch's vote justifies the
\* epoch after the current one
weigh_justifying_next_epoch(s, total_active_balance, previous_epoch_target_balance, current_epoch_target_balance) ==
    LET previous_epoch == get_previous_epoch(s)
        current_epoch == get_current_epoch(s)
        old_previous_justified_checkpoint == s.previous_justified_checkpoint
        old_current_justified_checkpoint == s.current_justified_checkpoint
        s1 == [s EXCEPT !.previous_justified_checkpoint = s.current_justified_checkpoint,
                        !.justification_bits = shift_justification_bits(@)]
        justify_previous == previous_epoch_target_balance * 3 >= total_active_balance * 2
        justify_current == current_epoch_target_balance * 3 >= total_active_balance * 2
        previous_root == get_block_root(s1, previous_epoch)
        s2 == IF justify_previous
              THEN [s1 EXCEPT !.current_justified_checkpoint = Checkpoint(previous_epoch, previous_root.val),
                              !.justification_bits[2] = TRUE]
              ELSE s1
        current_root == get_block_root(s2, current_epoch)
        s3 == IF justify_current
              THEN [s2 EXCEPT !.current_justified_checkpoint = Checkpoint(current_epoch + 1, current_root.val),
                              !.justification_bits[1] = TRUE]
              ELSE s2
    IN  IF justify_previous /\ previous_root.result = "err" THEN Outcome("err", s1)
        ELSE IF justify_current /\ current_root.result = "err" THEN Outcome("err", s2)
        ELSE Outcome("ok", finalize(s3, old_previous_justified_checkpoint, old_current_justified_checkpoint))

\* the state is returned with the result: an Err leaves the writes made before it
weigh_justification_and_finalization(s, total_active_balance, previous_epoch_target_balance, current_epoch_target_balance) ==
    LET previous_epoch == get_previous_epoch(s)
        current_epoch == get_current_epoch(s)
        old_previous_justified_checkpoint == s.previous_justified_checkpoint
        old_current_justified_checkpoint == s.current_justified_checkpoint
        s1 == [s EXCEPT !.previous_justified_checkpoint = s.current_justified_checkpoint,
                        !.justification_bits = shift_justification_bits(@)]
        justify_previous == previous_epoch_target_balance * 3 >= total_active_balance * 2
        justify_current == current_epoch_target_balance * 3 >= total_active_balance * 2
        previous_root == get_block_root(s1, previous_epoch)
        s2 == IF justify_previous
              THEN [s1 EXCEPT !.current_justified_checkpoint = Checkpoint(previous_epoch, previous_root.val),
                              !.justification_bits[2] = TRUE]
              ELSE s1
        current_root == get_block_root(s2, current_epoch)
        s3 == IF justify_current
              THEN [s2 EXCEPT !.current_justified_checkpoint = Checkpoint(current_epoch, current_root.val),
                              !.justification_bits[1] = TRUE]
              ELSE s2
    IN  IF justify_previous /\ previous_root.result = "err" THEN Outcome("err", s1)
        ELSE IF justify_current /\ current_root.result = "err" THEN Outcome("err", s2)
        ELSE Outcome("ok", finalize(s3, old_previous_justified_checkpoint, old_current_justified_checkpoint))

\* the balances process_justification_and_finalization passes to
\* weigh_justification_and_finalization, or the failure of computing them
justification_balances(s) ==
    LET previous_indices ==
            get_unslashed_participating_indices(s, TIMELY_TARGET_FLAG_INDEX, get_previous_epoch(s))
        current_indices ==
            get_unslashed_participating_indices(s, TIMELY_TARGET_FLAG_INDEX, get_current_epoch(s))
    IN  IF previous_indices.result # "ok" THEN Outcome(previous_indices.result, <<>>)
        ELSE IF current_indices.result # "ok" THEN Outcome(current_indices.result, <<>>)
        ELSE Outcome("ok", [total_active_balance |-> get_total_active_balance(s),
                            previous_target_balance |-> get_total_balance(s, previous_indices.val),
                            current_target_balance |-> get_total_balance(s, current_indices.val)])

process_justification_and_finalization(s) ==
    IF get_current_epoch(s) <= GENESIS_EPOCH + 1
    THEN Outcome("ok", s)
    ELSE LET b == justification_balances(s)
         IN  IF b.result # "ok"
             THEN Outcome(b.result, s)
             ELSE weigh_justification_and_finalization(s, b.val.total_active_balance,
                      b.val.previous_target_balance, b.val.current_target_balance)

----------------------------------------------------------------------------
(* Epoch transitions: slots advance one by one from genesis, validators are awarded the   *)
(* TIMELY_TARGET flag for the current or the previous epoch, and the last slot of every   *)
(* epoch runs process_justification_and_finalization and rotates the participation lists. *)
(* The other steps of epoch processing write none of the fields read here.                *)

\* the last epoch whose slots are processed
MaxEpoch == 5
\* number of validators of the genesis state
GenesisValidators == 3
\* a run of this many epochs is what the finalization property is about
RunLength == 4

\* a validator slashed during the genesis epoch: it stays active until its exit epoch
SlashedValidator(pubkey) ==
    Validator(pubkey, Credentials(BLS_WITHDRAWAL_PREFIX, 0, pubkey), MAX_EFFECTIVE_BALANCE,
              TRUE, GENESIS_EPOCH, GENESIS_EPOCH, 5, 200)

\* one block per slot: the root cached for a slot identifies the slot
BlockRootAtSlot(slot) == slot + 1

\* participation flag rotation: previous <- current, current <- 0
process_participation_flag_updates(s) ==
    [s EXCEPT !.previous_epoch_participation = s.current_epoch_participation,
              !.current_epoch_participation = [i \in 1 .. Len(s.validators) |-> 0]]

process_epoch(s) ==
    LET r == process_justification_and_finalization(s)
    IN  IF r.result = "ok" THEN Outcome("ok", process_participation_flag_updates(r.val)) ELSE r

\* cache the block root of the slot, run epoch processing on the last slot of an epoch,
\* then advance the slot
process_slot(s) ==
    LET cached == [s EXCEPT !.block_roots[(s.slot % SLOTS_PER_HISTORICAL_ROOT) + 1] =
                                BlockRootAtSlot(s.slot)]
    IN  IF (s.slot + 1) % SLOTS_PER_EPOCH = 0
        THEN LET r == process_epoch(cached)
             IN  IF r.result = "ok" THEN Outcome("ok", [r.val EXCEPT !.slot = @ + 1]) ELSE r
        ELSE Outcome("ok", [cached EXCEPT !.slot = @ + 1])

\* balance of the unslashed validators, active at `epoch`, that hold TIMELY_TARGET for it
UnslashedTargetBalance(s, epoch) ==
    LET participation == IF epoch = s.slot \div SLOTS_PER_EPOCH
                         THEN s.current_epoch_participation
                         ELSE s.previous_epoch_participation
    IN  Max(EFFECTIVE_BALANCE_INCREMENT,
            SumEffectiveBalance(s, {i \in Indices(s.validators) :
                                        /\ ActiveAt(At(s.validators, i), epoch)
                                        /\ has_flag(At(participation, i), TIMELY_TARGET_FLAG_INDEX)
                                        /\ ~At(s.validators, i).slashed}))

\* balance of the validators active at the epoch of the state
ActiveBalance(s) ==
    Max(EFFECTIVE_BALANCE_INCREMENT,
        SumEffectiveBalance(s, {i \in Indices(s.validators) :
                                    ActiveAt(At(s.validators, i), s.slot \div SLOTS_PER_EPOCH)}))

\* more than 2/3 of the active balance voted for the current epoch's target
CurrentSupermajority(s) ==
    UnslashedTargetBalance(s, s.slot \div SLOTS_PER_EPOCH) * 3 > ActiveBalance(s) * 2

\* the participation update of process_attestation for one attesting validator of an
\* attestation that earns TIMELY_TARGET for the target epoch.  Flags only accumulate during
\* an epoch and are read when its last slot is processed, so the attestations of an epoch
\* are all taken to arrive in the block of its last slot; an attestation that sets no new
\* flag leaves the lists as they are and is left out.
AwardTimelyTarget ==
    \E target \in {get_previous_epoch(state), get_current_epoch(state)} :
        \E index \in Range(get_active_validator_indices(state, target)) :
            LET flags == IF target = get_current_epoch(state)
                         THEN At(state.current_epoch_participation, index)
                         ELSE At(state.previous_epoch_participation, index)
                awarded == IF has_flag(flags, TIMELY_TARGET_FLAG_INDEX)
                           THEN flags
                           ELSE add_flag(flags, TIMELY_TARGET_FLAG_INDEX)
            IN  /\ (state.slot + 1) % SLOTS_PER_EPOCH = 0
                /\ awarded # flags
                /\ compute_epoch_at_slot(state.slot) <= MaxEpoch
                /\ pre' = state
                /\ state' = IF target = get_current_epoch(state)
                            THEN [state EXCEPT !.current_epoch_participation[index + 1] = awarded]
                            ELSE [state EXCEPT !.previous_epoch_participation[index + 1] = awarded]
                /\ UNCHANGED hist
                /\ op' = Call("process_attestation", [index |-> index, target |-> target], "ok", <<>>)

ProcessSlot ==
    LET r == process_slot(state)
        epoch_processing == (state.slot + 1) % SLOTS_PER_EPOCH = 0
        weighed == epoch_processing /\ get_current_epoch(state) > GENESIS_EPOCH + 1
        b == justification_balances(state)
    IN  /\ compute_epoch_at_slot(state.slot) <= MaxEpoch
        /\ pre' = state
        /\ state' = r.val
        /\ hist' = IF weighed
                   THEN IF CurrentSupermajority(state) THEN Min(hist + 1, RunLength) ELSE 0
                   ELSE hist
        /\ op' = Call("process_slot",
                      [epoch_processing |-> epoch_processing,
                       weighed |-> weighed /\ b.result = "ok",
                       balances |-> IF weighed THEN b.val ELSE <<>>],
                      r.result, <<>>)

InitFFG ==
    /\ \E validators \in [1 .. GenesisValidators ->
                             UNION {{GenesisValidator(k), SlashedValidator(k)} : k \in 1 .. GenesisValidators}] :
        /\ \A k \in 1 .. GenesisValidators : validators[k].pubkey = k
        /\ state = BeaconState(0, validators, [k \in 1 .. GenesisValidators |-> MAX_EFFECTIVE_BALANCE])
    /\ pre = state
    /\ op = NoCall
    /\ hist = 0

NextFFG == AwardTimelyTarget \/ ProcessSlot

SpecFFG == InitFFG /\ [][NextFFG]_vars

\* C3: weigh_justification_and_finalization shifts the justification bits by one before it
\* applies the votes: bits[3] = b[2], bits[2] = b[1], bits[1] = b[0] or the previous
\* epoch's target balance reaches 2/3, bits[0] = the current epoch's target balance
\* reaches 2/3 (b the bits before the call; indices 0-based).
C3_BitsShiftThenVotes ==
    (op.name = "process_slot" /\ op.args.weighed /\ op.result = "ok") =>
        LET b == pre.justification_bits
            bits == state.justification_bits
            total == op.args.balances.total_active_balance
        IN  /\ bits[4] = b[3]
            /\ bits[3] = b[2]
            /\ bits[2] = (b[1] \/ op.args.balances.previous_target_balance * 3 >= total * 2)
            /\ bits[1] = (op.args.balances.current_target_balance * 3 >= total * 2)

\* C4: after RunLength consecutive epoch transitions (past the first two epochs) in each of
\* which the current epoch's target balance exceeds 2/3 of the active balance, the
\* finalized checkpoint is two epochs behind the current epoch.
C4_RunOfFourFinalizes ==
    (op.name = "process_slot" /\ op.args.epoch_processing /\ hist >= RunLength) =>
        /\ op.result = "ok"
        /\ state.finalized_checkpoint.epoch = (state.slot \div SLOTS_PER_EPOCH) - 2

\* C5: in every state finalized_checkpoint.epoch <= current_justified_checkpoint.epoch <=
\* current epoch, and right after process_justification_and_finalization (before the slot
\* advances) the justified epoch is at most the epoch that was processed.
C5_CheckpointOrder ==
    /\ state.finalized_checkpoint.epoch <= state.current_justified_checkpoint.epoch
    /\ state.current_justified_checkpoint.epoch <= state.slot \div SLOTS_PER_EPOCH
    /\ (op.name = "process_slot" /\ op.args.epoch_processing) =>
           state.current_justified_checkpoint.epoch <= pre.slot \div SLOTS_PER_EPOCH

\* an epoch transition has justified a checkpoint and finalized one past genesis
C5_Witness ==
    /\ op.name = "process_slot"
    /\ op.args.weighed
    /\ state.finalized_checkpoint.epoch > GENESIS_EPOCH
    /\ state.current_justified_checkpoint.epoch > state.finalized_checkpoint.epoch

----------------------------------------------------------------------------
(* Deposits.  A deposit carries, instead of bytes, what the cryptography makes of them:   *)
(* whether its Merkle branch proves it at eth1_deposit_index, and whether its signature   *)
(* parses and verifies.  Public key 0 stands for bytes that are no valid public key.      *)

\* largest registry the deposits grow
MaxRegistry == 3
\* public keys of deposits: 0 .. MaxPubkey
MaxPubkey == 3
\* no balance is topped up past this
DepositBalanceCap == 12
\* deposits processed in one behaviour
MaxDeposits == 3

UnparsablePubkey == 0

Deposit(pubkey, credentials, amount, signature, proof_valid) ==
    [pubkey |-> pubkey, withdrawal_credentials |-> credentials, amount |-> amount,
     signature |-> signature, proof_valid |-> proof_valid]

\* a validator whose effective balance is capped but not rounded down to the increment
get_validator_from_deposit_unrounded(pubkey, withdrawal_credentials, amount) ==
    Validator(pubkey, withdrawal_credentials, Min(amount, MAX_EFFECTIVE_BALANCE), FALSE,
              FAR_FUTURE_EPOCH, FAR_FUTURE_EPOCH, FAR_FUTURE_EPOCH, FAR_FUTURE_EPOCH)

get_validator_from_deposit(pubkey, withdrawal_credentials, amount) ==
    LET effective_balance ==
            Min(amount - (amount % EFFECTIVE_BALANCE_INCREMENT), MAX_EFFECTIVE_BALANCE)
    IN  Validator(pubkey, withdrawal_credentials, effective_balance, FALSE,
                  FAR_FUTURE_EPOCH, FAR_FUTURE_EPOCH, FAR_FUTURE_EPOCH, FAR_FUTURE_EPOCH)

\* pushes to validators and to balances, and to no other list
add_validator_to_registry(s, pubkey, withdrawal_credentials, amount) ==
    [s EXCEPT !.validators = Append(@, get_validator_from_deposit(pubkey, withdrawal_credentials, amount)),
              !.balances = Append(@, amount)]

apply_deposit(s, pubkey, withdrawal_credentials, amount, signature) ==
    LET validator_pubkeys == [k \in 1 .. Len(s.validators) |-> s.validators[k].pubkey]
    IN  IF pubkey \notin Range(validator_pubkeys)
        THEN IF signature = "unparsable" THEN Outcome("err", s)
             ELSE IF pubkey = UnparsablePubkey THEN Outcome("err", s)
             ELSE IF signature = "valid"
             THEN Outcome("ok", add_validator_to_registry(s, pubkey, withdrawal_credentials, amount))
             ELSE Outcome("ok", s)
        ELSE LET index == (CHOOSE k \in 1 .. Len(validator_pubkeys) :
                               /\ validator_pubkeys[k] = pubkey
                               /\ \A j \in 1 .. k - 1 : validator_pubkeys[j] # pubkey) - 1
             IN  Outcome("ok", increase_balance(s, index, amount))

process_deposit(s, deposit) ==
    IF ~deposit.proof_valid
    THEN Outcome("err", s)
    ELSE apply_deposit([s EXCEPT !.eth1_deposit_index = @ + 1], deposit.pubkey,
                       deposit.withdrawal_credentials, deposit.amount, deposit.signature)

ProcessDeposit ==
    \E pubkey \in 0 .. MaxPubkey,
       amount \in {1, EFFECTIVE_BALANCE_INCREMENT + 1, MAX_EFFECTIVE_BALANCE + 3},
       signature \in {"unparsable", "invalid", "valid"},
       proof_valid \in BOOLEAN :
        LET prefix == IF pubkey % 2 = 1 THEN ETH1_ADDRESS_WITHDRAWAL_PREFIX ELSE BLS_WITHDRAWAL_PREFIX
            deposit == Deposit(pubkey, Credentials(prefix, 0, pubkey), amount, signature, proof_valid)
            r == process_deposit(state, deposit)
        IN  /\ Len(state.validators) < MaxRegistry
            /\ hist < MaxDeposits
            /\ \A k \in 1 .. Len(state.balances) : state.balances[k] + amount <= DepositBalanceCap
            /\ pre' = state
            /\ state' = r.val
            /\ hist' = hist + 1
            /\ op' = Call("process_deposit", deposit, r.result, <<>>)

InitDeposit ==
    /\ \E n \in 1 .. 2 :
        state = BeaconState(SLOTS_PER_EPOCH, [k \in 1 .. n |-> GenesisValidator(k)],
                            [k \in 1 .. n |-> MAX_EFFECTIVE_BALANCE])
    /\ pre = state
    /\ op = NoCall
    /\ hist = 0

NextDeposit == ProcessDeposit

SpecDeposit == InitDeposit /\ [][NextDeposit]_vars

\* C6: after any sequence of deposits, the registry and its parallel lists have one length:
\* |balances| = |validators| = |inactivity_scores| = |previous_epoch_participation| =
\* |current_epoch_participation|.
C6_ParallelListsGrowTogether ==
    /\ Len(state.balances) = Len(state.validators)
    /\ Len(state.inactivity_scores) = Len(state.validators)
    /\ Len(state.previous_epoch_participation) = Len(state.validators)
    /\ Len(state.current_epoch_participation) = Len(state.validators)

\* C12: a process_deposit that returns an error leaves the BeaconState unchanged,
\* eth1_deposit_index included; a process_deposit that succeeds increases
\* eth1_deposit_index by exactly 1.
C12_DepositErrorLeavesState ==
    op.name = "process_deposit" =>
        /\ op.result = "err" => state = pre
        /\ op.result = "ok" => state.eth1_deposit_index = pre.eth1_deposit_index + 1

\* the deposit of the last call has a valid Merkle branch and a signature that verifies
\* for a public key that is not in the registry
NewValidatorDeposit ==
    /\ op.name = "process_deposit"
    /\ op.args.proof_valid
    /\ op.args.signature = "valid"
    /\ op.args.pubkey # UnparsablePubkey
    /\ \A k \in 1 .. Len(pre.validators) : pre.validators[k].pubkey # op.args.pubkey

----------------------------------------------------------------------------
(* Withdrawals: BeaconState::get_expected_withdrawals, BeaconState::process_withdrawals *)

\* largest registry the withdrawal sweep runs over
MaxSweepValidators == 3
\* the withdrawals are processed during this epoch
SweepEpoch == 3

has_eth1_withdrawal_credential(validator) ==
    validator.withdrawal_credentials[1] = ETH1_ADDRESS_WITHDRAWAL_PREFIX

is_fully_withdrawable_validator(validator, balance, epoch) ==
    /\ has_eth1_withdrawal_credential(validator)
    /\ validator.withdrawable_epoch <= epoch
    /\ balance > 0

is_partially_withdrawable_validator(validator, balance) ==
    /\ has_eth1_withdrawal_credential(validator)
    /\ validator.effective_balance = MAX_EFFECTIVE_BALANCE
    /\ balance > MAX_EFFECTIVE_BALANCE

\* Address::from_slice: a 20-byte address from a slice of exactly 20 bytes; it panics
\* on a slice of any other length
AddressFromSlice(bytes) ==
    IF Len(bytes) = 20 THEN Outcome("ok", bytes) ELSE Outcome("panic", <<>>)

Withdrawal(index, validator_index, address, amount) ==
    [index |-> index, validator_index |-> validator_index, address |-> address, amount |-> amount]

\* the iterations of `for _ in 0..bound` from the i-th on
RECURSIVE sweep_withdrawals(_, _, _, _, _, _)
sweep_withdrawals(s, bound, i, validator_index, withdrawal_index, withdrawals) ==
    IF i = bound THEN Outcome("ok", withdrawals)
    ELSE IF validator_index >= Len(s.validators) \/ validator_index >= Len(s.balances)
    THEN Outcome("panic", <<>>)
    ELSE LET epoch == get_current_epoch(s)
             validator == At(s.validators, validator_index)
             balance == At(s.balances, validator_index)
             address == AddressFromSlice(SubSeq(validator.withdrawal_credentials, 1, 12))
             full == is_fully_withdrawable_validator(validator, balance, epoch)
             partial == ~full /\ is_partially_withdrawable_validator(validator, balance)
             amount == IF full THEN balance ELSE balance - MAX_EFFECTIVE_BALANCE
             pushed == IF full \/ partial
                       THEN Append(withdrawals, Withdrawal(withdrawal_index, validator_index, address.val, amount))
                       ELSE withdrawals
             next_index == IF full \/ partial THEN withdrawal_index + 1 ELSE withdrawal_index
         IN  IF (full \/ partial) /\ address.result = "panic" THEN Outcome("panic", <<>>)
             ELSE IF Len(pushed) = MAX_WITHDRAWALS_PER_PAYLOAD THEN Outcome("ok", pushed)
             ELSE sweep_withdrawals(s, bound, i + 1, (validator_index + 1) % Len(s.validators),
                                    next_index, pushed)

get_expected_withdrawals(s) ==
    LET bound == Min(Len(s.validators), MAX_VALIDATORS_PER_WITHDRAWALS_SWEEP)
    IN  sweep_withdrawals(s, bound, 0, s.next_withdrawal_validator_index, s.next_withdrawal_index, <<>>)

RECURSIVE decrease_balances(_, _)
decrease_balances(s, withdrawals) ==
    IF withdrawals = <<>> THEN s
    ELSE decrease_balances(decrease_balance(s, Head(withdrawals).validator_index, Head(withdrawals).amount),
                           Tail(withdrawals))

\* `if expected_withdrawals.is_empty()` guards `expected_withdrawals[len - 1]`: the index
\* is out of range exactly when the body runs
update_next_withdrawal_index(s, expected_withdrawals) ==
    IF expected_withdrawals = <<>>
    THEN Outcome("panic", s)
    ELSE Outcome("ok", s)

\* `last.validator_index + 1 % self.validators.len() as u64` is last + (1 % len)
update_next_withdrawal_validator_index(s, expected_withdrawals) ==
    IF Len(expected_withdrawals) = MAX_WITHDRAWALS_PER_PAYLOAD
    THEN IF Len(s.validators) = 0 THEN Outcome("panic", s)
         ELSE LET last == expected_withdrawals[Len(expected_withdrawals)]
                  next_validator_index == last.validator_index + (1 % Len(s.validators))
              IN  Outcome("ok", [s EXCEPT !.next_withdrawal_validator_index = next_validator_index])
    ELSE IF Len(s.validators) = 0 THEN Outcome("panic", s)
         ELSE LET next_index == s.next_withdrawal_validator_index + MAX_VALIDATORS_PER_WITHDRAWALS_SWEEP
              IN  Outcome("ok", [s EXCEPT !.next_withdrawal_validator_index = next_index % Len(s.validators)])

process_withdrawals(s, payload) ==
    LET expected_withdrawals == get_expected_withdrawals(s)
    IN  IF expected_withdrawals.result = "panic" THEN Outcome("panic", s)
        ELSE IF payload.withdrawals # expected_withdrawals.val THEN Outcome("err", s)
        ELSE LET decreased == decrease_balances(s, expected_withdrawals.val)
                 indexed == update_next_withdrawal_index(decreased, expected_withdrawals.val)
             IN  IF indexed.result = "panic" THEN indexed
                 ELSE update_next_withdrawal_validator_index(indexed.val, expected_withdrawals.val)

\* a validator of the sweep: with BLS credentials, or with an execution address and either
\* still active or exited and withdrawable since epoch 2
SweepValidator(pubkey, kind, balance) ==
    LET prefix == IF kind = "bls" THEN BLS_WITHDRAWAL_PREFIX ELSE ETH1_ADDRESS_WITHDRAWAL_PREFIX
        effective_balance == Min(balance - (balance % EFFECTIVE_BALANCE_INCREMENT), MAX_EFFECTIVE_BALANCE)
    IN  IF kind = "exited"
        THEN Validator(pubkey, Credentials(prefix, 0, 10 + pubkey), effective_balance, FALSE,
                       GENESIS_EPOCH, GENESIS_EPOCH, 1, 2)
        ELSE Validator(pubkey, Credentials(prefix, 0, 10 + pubkey), effective_balance, FALSE,
                       GENESIS_EPOCH, GENESIS_EPOCH, FAR_FUTURE_EPOCH, FAR_FUTURE_EPOCH)

SweepBalances == {0, MAX_EFFECTIVE_BALANCE, MAX_EFFECTIVE_BALANCE + 2}

\* The withdrawals the sweep is to produce: those of get_expected_withdrawals, each with the
\* execution address of its validator, bytes 12..32 of the withdrawal credentials.
RECURSIVE ExpectedFrom(_, _, _, _, _, _)
ExpectedFrom(s, bound, i, validator_index, withdrawal_index, withdrawals) ==
    IF i = bound THEN withdrawals
    ELSE LET validator == At(s.validators, validator_index)
             balance == At(s.balances, validator_index)
             full == is_fully_withdrawable_validator(validator, balance, get_current_epoch(s))
             partial == ~full /\ is_partially_withdrawable_validator(validator, balance)
             amount == IF full THEN balance ELSE balance - MAX_EFFECTIVE_BALANCE
             address == SubSeq(validator.withdrawal_credentials, 13, 32)
             pushed == IF full \/ partial
                       THEN Append(withdrawals, Withdrawal(withdrawal_index, validator_index, address, amount))
                       ELSE withdrawals
         IN  IF Len(pushed) = MAX_WITHDRAWALS_PER_PAYLOAD THEN pushed
             ELSE ExpectedFrom(s, bound, i + 1, (validator_index + 1) % Len(s.validators),
                               IF full \/ partial THEN withdrawal_index + 1 ELSE withdrawal_index, pushed)

ExpectedWithdrawals(s) ==
    ExpectedFrom(s, Min(Len(s.validators), MAX_VALIDATORS_PER_WITHDRAWALS_SWEEP), 0,
                 s.next_withdrawal_validator_index, s.next_withdrawal_index, <<>>)

ExecutionPayload(withdrawals) == [withdrawals |-> withdrawals]

GetExpectedWithdrawals ==
    LET r == get_expected_withdrawals(state)
    IN  /\ op.name # "get_expected_withdrawals"
        /\ pre' = state
        /\ UNCHANGED <<state, hist>>
        /\ op' = Call("get_expected_withdrawals", <<>>, r.result, r.val)

ProcessWithdrawals ==
    \E withdrawals \in {<<>>, ExpectedWithdrawals(state),
                        <<Withdrawal(state.next_withdrawal_index, 0, [i \in 1 .. 20 |-> 0], 1)>>} :
        LET payload == ExecutionPayload(withdrawals)
            r == process_withdrawals(state, payload)
        IN  /\ op.name # "process_withdrawals"
            /\ pre' = state
            /\ state' = r.val
            /\ UNCHANGED hist
            /\ op' = Call("process_withdrawals", payload, r.result, <<>>)

InitWithdrawals ==
    /\ \E n \in 1 .. MaxSweepValidators :
        \E kinds \in [1 .. n -> {"bls", "active", "exited"}], balances \in [1 .. n -> SweepBalances],
           cursor \in 0 .. n - 1 :
            state = [BeaconState(compute_start_slot_at_epoch(SweepEpoch),
                                 [k \in 1 .. n |-> SweepValidator(k, kinds[k], balances[k])],
                                 [k \in 1 .. n |-> balances[k]])
                     EXCEPT !.next_withdrawal_validator_index = cursor,
                            !.next_withdrawal_index = SweepEpoch + cursor]
    /\ pre = state
    /\ op = NoCall
    /\ hist = 0

NextWithdrawals == GetExpectedWithdrawals \/ ProcessWithdrawals

SpecWithdrawals == InitWithdrawals /\ [][NextWithdrawals]_vars

\* C8: process_withdrawals with the expected withdrawals as its payload succeeds; it sets
\* next_withdrawal_index to the index of the last withdrawal plus one when the list is
\* non-empty, and leaves it unchanged when the list is empty.
C8_WithdrawalIndexFollowsLast ==
    (op.name = "process_withdrawals" /\ op.args.withdrawals = ExpectedWithdrawals(pre)) =>
        LET expected == op.args.withdrawals
        IN  /\ op.result = "ok"
            /\ state.next_withdrawal_index =
                   IF expected = <<>> THEN pre.next_withdrawal_index
                   ELSE expected[Len(expected)].index + 1

\* C9: process_withdrawals with the expected withdrawals as its payload succeeds and wraps the
\* sweep cursor: after a full payload it is (validator_index of the last withdrawal + 1) mod
\* |validators|, otherwise (old cursor + MAX_VALIDATORS_PER_WITHDRAWALS_SWEEP) mod
\* |validators|, and in both cases it is below |validators|.
C9_SweepCursorWraps ==
    (op.name = "process_withdrawals" /\ op.args.withdrawals = ExpectedWithdrawals(pre)) =>
        LET expected == op.args.withdrawals
            n == Len(pre.validators)
        IN  /\ op.result = "ok"
            /\ state.next_withdrawal_validator_index =
                   IF Len(expected) = MAX_WITHDRAWALS_PER_PAYLOAD
                   THEN (expected[Len(expected)].validator_index + 1) % n
                   ELSE (pre.next_withdrawal_validator_index + MAX_VALIDATORS_PER_WITHDRAWALS_SWEEP) % n
            /\ state.next_withdrawal_validator_index < Len(state.validators)

\* C10: get_expected_withdrawals returns the withdrawals of the sweep, and each carries as
\* its address bytes 12..32 of the withdrawing validator's withdrawal credentials, whether
\* the withdrawal is full or partial.
C10_AddressIsLastTwentyBytes ==
    op.name = "get_expected_withdrawals" =>
        /\ op.result = "ok"
        /\ Len(op.ret) = Len(ExpectedWithdrawals(state))
        /\ \A k \in 1 .. Len(op.ret) :
               op.ret[k].address =
                   SubSeq(At(state.validators, op.ret[k].validator_index).withdrawal_credentials, 13, 32)

----------------------------------------------------------------------------
(* Block header: BeaconState::process_block_header *)

\* blocks are processed at slots 1 .. MaxHeaderSlot
MaxHeaderSlot == 3
\* the registry of the states that process block headers
HeaderValidators == 2

\* a hash tree root identifies the value it is taken of
tree_hash_root(value) == <<value>>

\* The proposer is sampled from the active validators by hashes of the seed of the slot;
\* every validator here has the maximal effective balance, so the first candidate is taken:
\* the shuffled position is modelled by the slot.
get_beacon_proposer_index(s) ==
    LET indices == get_active_validator_indices(s, get_current_epoch(s))
    IN  IF Len(indices) = 0 THEN Outcome("err", 0)
        ELSE Outcome("ok", At(indices, s.slot % Len(indices)))

BeaconBlock(slot, proposer_index, parent_root, body) ==
    [slot |-> slot, proposer_index |-> proposer_index, parent_root |-> parent_root, body |-> body]

process_block_header(s, block) ==
    LET proposer_index == get_beacon_proposer_index(s)
        cached == [s EXCEPT !.latest_block_header =
                       BeaconBlockHeader(block.slot, block.proposer_index, block.parent_root,
                                         ZeroRoot, tree_hash_root(block.body))]
    IN  IF s.slot # block.slot THEN Outcome("err", s)
        ELSE IF ~(block.slot > s.latest_block_header.slot) THEN Outcome("err", s)
        ELSE IF proposer_index.result = "err" THEN Outcome("err", s)
        ELSE IF block.proposer_index # proposer_index.val THEN Outcome("err", s)
        ELSE IF block.parent_root # tree_hash_root(s.latest_block_header) THEN Outcome("err", s)
        ELSE IF block.proposer_index >= Len(s.validators) THEN Outcome("panic", cached)
        ELSE IF At(s.validators, block.proposer_index).slashed THEN Outcome("err", cached)
        ELSE Outcome("ok", cached)

ProcessBlockHeader ==
    \E slot \in {state.slot - 1, state.slot},
       proposer_index \in Indices(state.validators),
       parent_root \in {ZeroRoot, tree_hash_root(state.latest_block_header)},
       body \in 1 .. 2 :
        LET block == BeaconBlock(slot, proposer_index, parent_root, body)
            r == process_block_header(state, block)
        IN  /\ pre' = state
            /\ state' = r.val
            /\ UNCHANGED hist
            /\ op' = Call("process_block_header", block, r.result, <<>>)

\* the slot advances to the next one (no epoch boundary is crossed by a header)
AdvanceSlot ==
    /\ state.slot < MaxHeaderSlot
    /\ pre' = state
    /\ state' = [state EXCEPT !.slot = @ + 1]
    /\ UNCHANGED hist
    /\ op' = Call("process_slots", <<>>, "ok", <<>>)

InitHeader ==
    /\ \E validators \in [1 .. HeaderValidators ->
                             UNION {{GenesisValidator(k), SlashedValidator(k)} : k \in 1 .. HeaderValidators}] :
        /\ \A k \in 1 .. HeaderValidators : validators[k].pubkey = k
        /\ state = BeaconState(1, validators, [k \in 1 .. HeaderValidators |-> MAX_EFFECTIVE_BALANCE])
    /\ pre = state
    /\ op = NoCall
    /\ hist = 0

NextHeader == ProcessBlockHeader \/ AdvanceSlot

SpecHeader == InitHeader /\ [][NextHeader]_vars

\* C11: process_block_header either succeeds, and then the block is for the slot of the
\* state, newer than the latest header, from the proposer of the slot, on the latest header
\* as its parent and from an unslashed proposer, or it returns an error and leaves the
\* state as it was.
C11_HeaderAcceptedOrStateUnchanged ==
    op.name = "process_block_header" =>
        \/ /\ op.result = "ok"
           /\ op.args.slot = pre.slot
           /\ op.args.slot > pre.latest_block_header.slot
           /\ op.args.proposer_index = get_beacon_proposer_index(pre).val
           /\ op.args.parent_root = tree_hash_root(pre.latest_block_header)
           /\ ~At(pre.validators, op.args.proposer_index).slashed
        \/ /\ op.result = "err"
           /\ state = pre

----------------------------------------------------------------------------
(* Exits and slashings: BeaconState::initiate_validator_exit, BeaconState::slash_validator *)

\* validators of the states that exit and slash
ExitValidators == 3
\* the exits and slashings happen during this epoch
ExitEpoch == 2
\* calls in one behaviour
MaxExitCalls == 2

compute_activation_exit_epoch(epoch) == epoch + 1 + MAX_SEED_LOOKAHEAD

get_validator_churn_limit(s) ==
    LET active_validator_indices == get_active_validator_indices(s, get_current_epoch(s))
    IN  Max(MIN_PER_EPOCH_CHURN_LIMIT, Len(active_validator_indices) \div CHURN_LIMIT_QUOTIENT)

MaxOf(S) == CHOOSE x \in S : \A y \in S : y <= x

\* the exit at the earliest exit epoch, whatever the exit queue holds
initiate_validator_exit_earliest(s, index) ==
    IF index >= Len(s.validators) THEN s
    ELSE IF At(s.validators, index).exit_epoch # FAR_FUTURE_EPOCH THEN s
    ELSE LET exit_queue_epoch == compute_activation_exit_epoch(get_current_epoch(s))
         IN  [s EXCEPT !.validators[index + 1].exit_epoch = exit_queue_epoch,
                       !.validators[index + 1].withdrawable_epoch =
                           exit_queue_epoch + MIN_VALIDATOR_WITHDRAWABILITY_DELAY]

\* the exit epoch is left as it is, and with it the whole state
initiate_validator_exit_never(s, index) == s

\* the exit queue without the churn limit
initiate_validator_exit_unlimited(s, index) ==
    IF index >= Len(s.validators) THEN s
    ELSE IF At(s.validators, index).exit_epoch # FAR_FUTURE_EPOCH THEN s
    ELSE LET exit_queue_epoch ==
                 MaxOf({s.validators[k].exit_epoch : k \in {j \in 1 .. Len(s.validators) : s.validators[j].exit_epoch # FAR_FUTURE_EPOCH}}
                       \cup {compute_activation_exit_epoch(get_current_epoch(s))})
         IN  [s EXCEPT !.validators[index + 1].exit_epoch = exit_queue_epoch,
                       !.validators[index + 1].withdrawable_epoch =
                           exit_queue_epoch + MIN_VALIDATOR_WITHDRAWABILITY_DELAY]

initiate_validator_exit(s, index) ==
    IF index >= Len(s.validators) THEN s
    ELSE IF At(s.validators, index).exit_epoch # FAR_FUTURE_EPOCH THEN s
    ELSE LET exit_epochs ==
                 {s.validators[k].exit_epoch :
                      k \in {j \in 1 .. Len(s.validators) : s.validators[j].exit_epoch # FAR_FUTURE_EPOCH}}
                 \cup {compute_activation_exit_epoch(get_current_epoch(s))}
             queue_epoch == MaxOf(exit_epochs)
             exit_queue_churn ==
                 Cardinality({k \in 1 .. Len(s.validators) : s.validators[k].exit_epoch = queue_epoch})
             exit_queue_epoch == IF exit_queue_churn >= get_validator_churn_limit(s)
                                 THEN queue_epoch + 1
                                 ELSE queue_epoch
         IN  [s EXCEPT !.validators[index + 1].exit_epoch = exit_queue_epoch,
                       !.validators[index + 1].withdrawable_epoch =
                           exit_queue_epoch + MIN_VALIDATOR_WITHDRAWABILITY_DELAY]

\* whistleblower_index is <<>> for None and <<i>> for Some(i)
slash_validator(s, slashed_index, whistleblower_index) ==
    LET epoch == get_current_epoch(s)
        exited == initiate_validator_exit(s, slashed_index)
    IN  IF slashed_index >= Len(exited.validators) THEN Outcome("err", exited)
        ELSE LET validator_effective_balance == At(exited.validators, slashed_index).effective_balance
                 marked == [exited EXCEPT
                               !.validators[slashed_index + 1].slashed = TRUE,
                               !.validators[slashed_index + 1].withdrawable_epoch =
                                   Max(@, epoch + EPOCHS_PER_SLASHINGS_VECTOR),
                               !.slashings[(epoch % EPOCHS_PER_SLASHINGS_VECTOR) + 1] =
                                   @ + validator_effective_balance]
                 decreased == decrease_balance(marked, slashed_index,
                                  validator_effective_balance \div MIN_SLASHING_PENALTY_QUOTIENT)
                 proposer_index == get_beacon_proposer_index(decreased)
                 whistleblower == IF whistleblower_index = <<>> THEN proposer_index.val
                                  ELSE whistleblower_index[1]
                 whistleblower_reward == validator_effective_balance \div WHISTLEBLOWER_REWARD_QUOTIENT
                 proposer_reward == (whistleblower_reward * PROPOSER_WEIGHT) \div WEIGHT_DENOMINATOR
             IN  IF proposer_index.result = "err" THEN Outcome("err", decreased)
                 ELSE Outcome("ok", increase_balance(
                                        increase_balance(decreased, proposer_index.val, proposer_reward),
                                        whistleblower, whistleblower_reward - proposer_reward))

InitiateValidatorExit ==
    \E index \in 0 .. Len(state.validators) :
        /\ hist < MaxExitCalls
        /\ pre' = state
        /\ state' = initiate_validator_exit(state, index)
        /\ hist' = hist + 1
        /\ op' = Call("initiate_validator_exit", [index |-> index], "ok", <<>>)

SlashValidator ==
    \E slashed_index \in 0 .. Len(state.validators),
       whistleblower_index \in {<<>>, <<0>>} :
        LET r == slash_validator(state, slashed_index, whistleblower_index)
        IN  /\ hist < MaxExitCalls
            /\ pre' = state
            /\ state' = r.val
            /\ hist' = hist + 1
            /\ op' = Call("slash_validator",
                          [slashed_index |-> slashed_index, whistleblower_index |-> whistleblower_index],
                          r.result, <<>>)

\* a validator of the registry: active since genesis, eligible and waiting for its
\* activation, or active with its exit already initiated during this epoch
ExitLifecycles(pubkey) ==
    LET c == Credentials(BLS_WITHDRAWAL_PREFIX, 0, pubkey)
        q == compute_activation_exit_epoch(ExitEpoch)
    IN  {GenesisValidator(pubkey),
         Validator(pubkey, c, MAX_EFFECTIVE_BALANCE, FALSE, ExitEpoch - 1, FAR_FUTURE_EPOCH,
                   FAR_FUTURE_EPOCH, FAR_FUTURE_EPOCH),
         Validator(pubkey, c, MAX_EFFECTIVE_BALANCE, FALSE, GENESIS_EPOCH, GENESIS_EPOCH,
                   q, q + MIN_VALIDATOR_WITHDRAWABILITY_DELAY)}

InitExit ==
    /\ \E validators \in [1 .. ExitValidators -> UNION {ExitLifecycles(k) : k \in 1 .. ExitValidators}] :
        /\ \A k \in 1 .. ExitValidators : validators[k].pubkey = k
        /\ state = BeaconState(compute_start_slot_at_epoch(ExitEpoch), validators,
                               [k \in 1 .. ExitValidators |-> MAX_EFFECTIVE_BALANCE])
    /\ pre = state
    /\ op = NoCall
    /\ hist = 0

NextExit == InitiateValidatorExit \/ SlashValidator

SpecExit == InitExit /\ [][NextExit]_vars

ExitQueueEpoch(s) ==
    LET initiated == {k \in 1 .. Len(s.validators) : s.validators[k].exit_epoch # FAR_FUTURE_EPOCH}
        earliest == compute_activation_exit_epoch(get_current_epoch(s))
        last == IF \E k \in initiated : s.validators[k].exit_epoch > earliest
                THEN CHOOSE x \in {s.validators[k].exit_epoch : k \in initiated} :
                         \A k \in initiated : s.validators[k].exit_epoch <= x
                ELSE earliest
        exiting == Cardinality({k \in initiated : s.validators[k].exit_epoch = last})
    IN  IF exiting >= get_validator_churn_limit(s) THEN last + 1 ELSE last

----------------------------------------------------------------------------
(* Block operations on the registry: BeaconState::process_voluntary_exit,                *)
(* BeaconState::process_proposer_slashing, BeaconState::process_attester_slashing.       *)
(* A signature is what the cryptography makes of its bytes: "unparsable", "invalid" or   *)
(* "valid" for the message and the public keys it is checked against.                    *)

\* operations processed in one behaviour
MaxOperations == 2

\* u64 addition as a build without overflow checks computes it (FAR_FUTURE_EPOCH is u64::MAX)
WrappingAdd(a, b) == (a + b) % (FAR_FUTURE_EPOCH + 1)

is_slashable_validator(validator, epoch) ==
    /\ ~validator.slashed
    /\ validator.activation_epoch <= epoch
    /\ epoch < validator.withdrawable_epoch

AttestationData(slot, index, beacon_block_root, source, target) ==
    [slot |-> slot, index |-> index, beacon_block_root |-> beacon_block_root,
     source |-> source, target |-> target]

is_slashable_attestation_data(data_1, data_2) ==
    \/ (data_1 # data_2 /\ data_1.target.epoch = data_2.target.epoch)
    \/ (data_1.source.epoch < data_2.source.epoch /\ data_2.target.epoch < data_1.target.epoch)

IndexedAttestation(attesting_indices, data, signature) ==
    [attesting_indices |-> attesting_indices, data |-> data, signature |-> signature]

is_sorted_and_unique(indices) ==
    \A k \in 1 .. Len(indices) - 1 : indices[k] < indices[k + 1]

\* Ok(false) for no indices or indices out of order, Err for signature bytes that do not
\* parse, otherwise whether the aggregate signature verifies against the public keys
\* collected: `filter_map(|&i| self.validators.get(i)...)` leaves out the indices that are
\* not in the registry, and no signature verifies against no key at all
is_valid_indexed_attestation(s, indexed_attestation) ==
    LET pubkeys == {i \in Range(indexed_attestation.attesting_indices) : i < Len(s.validators)}
    IN  IF Len(indexed_attestation.attesting_indices) = 0
           \/ ~is_sorted_and_unique(indexed_attestation.attesting_indices)
        THEN Outcome("ok", FALSE)
        ELSE IF indexed_attestation.signature = "unparsable" THEN Outcome("err", FALSE)
        ELSE Outcome("ok", pubkeys # {} /\ indexed_attestation.signature = "valid")

SortedSeq(S) ==
    LET RECURSIVE ascending(_)
        ascending(T) == IF T = {} THEN <<>>
                        ELSE LET least == CHOOSE x \in T : \A y \in T : x <= y
                             IN  <<least>> \o ascending(T \ {least})
    IN  ascending(S)

\* the loop over the common indices, from the k-th on
RECURSIVE slash_common_indices(_, _, _, _)
slash_common_indices(s, indices, k, slashed_any) ==
    IF k > Len(indices) THEN [result |-> "ok", val |-> s, slashed_any |-> slashed_any]
    ELSE IF indices[k] >= Len(s.validators)
    THEN [result |-> "panic", val |-> s, slashed_any |-> slashed_any]
    ELSE IF is_slashable_validator(At(s.validators, indices[k]), get_current_epoch(s))
    THEN LET r == slash_validator(s, indices[k], <<>>)
         IN  IF r.result # "ok"
             THEN [result |-> r.result, val |-> r.val, slashed_any |-> slashed_any]
             ELSE slash_common_indices(r.val, indices, k + 1, TRUE)
    ELSE slash_common_indices(s, indices, k + 1, slashed_any)

AttesterSlashing(attestation_1, attestation_2) ==
    [attestation_1 |-> attestation_1, attestation_2 |-> attestation_2]

process_attester_slashing(s, attester_slashing) ==
    LET attestation_1 == attester_slashing.attestation_1
        attestation_2 == attester_slashing.attestation_2
        valid_1 == is_valid_indexed_attestation(s, attestation_1)
        valid_2 == is_valid_indexed_attestation(s, attestation_2)
        common == SortedSeq(Range(attestation_1.attesting_indices)
                            \cap Range(attestation_2.attesting_indices))
        r == slash_common_indices(s, common, 1, FALSE)
    IN  IF ~is_slashable_attestation_data(attestation_1.data, attestation_2.data)
        THEN Outcome("err", s)
        ELSE IF valid_1.result = "err" \/ ~valid_1.val THEN Outcome("err", s)
        ELSE IF valid_2.result = "err" \/ ~valid_2.val THEN Outcome("err", s)
        ELSE IF r.result # "ok" THEN Outcome(r.result, r.val)
        ELSE IF ~r.slashed_any THEN Outcome("err", r.val)
        ELSE Outcome("ok", r.val)

SignedBeaconBlockHeader(slot, proposer_index, body_root, signature) ==
    [message |-> [slot |-> slot, proposer_index |-> proposer_index, body_root |-> body_root],
     signature |-> signature]

ProposerSlashing(signed_header_1, signed_header_2) ==
    [signed_header_1 |-> signed_header_1, signed_header_2 |-> signed_header_2]

process_proposer_slashing(s, proposer_slashing) ==
    LET header_1 == proposer_slashing.signed_header_1.message
        header_2 == proposer_slashing.signed_header_2.message
        proposer_index == header_1.proposer_index
        signatures == <<proposer_slashing.signed_header_1.signature,
                        proposer_slashing.signed_header_2.signature>>
    IN  IF header_1.slot # header_2.slot THEN Outcome("err", s)
        ELSE IF header_1.proposer_index # header_2.proposer_index THEN Outcome("err", s)
        ELSE IF header_1 = header_2 THEN Outcome("err", s)
        ELSE IF proposer_index >= Len(s.validators) THEN Outcome("err", s)
        ELSE IF ~is_slashable_validator(At(s.validators, proposer_index), get_current_epoch(s))
        THEN Outcome("err", s)
        ELSE IF \E k \in 1 .. 2 : signatures[k] # "valid" THEN Outcome("err", s)
        ELSE slash_validator(s, proposer_index, <<>>)

SignedVoluntaryExit(epoch, validator_index, signature) ==
    [message |-> [epoch |-> epoch, validator_index |-> validator_index], signature |-> signature]

\* `validator.activation_epoch + SHARD_COMMITTEE_PERIOD` overflows u64 for an activation
\* epoch near FAR_FUTURE_EPOCH: a build with overflow checks panics, a build without them
\* wraps.  The outcomes of the call are those of both builds.
process_voluntary_exit(s, signed_voluntary_exit) ==
    LET voluntary_exit == signed_voluntary_exit.message
        validator_index == voluntary_exit.validator_index
        validator == At(s.validators, validator_index)
        overflows == validator.activation_epoch + SHARD_COMMITTEE_PERIOD > FAR_FUTURE_EPOCH
        verified == IF signed_voluntary_exit.signature # "valid" THEN Outcome("err", s)
                    ELSE Outcome("ok", initiate_validator_exit(s, validator_index))
    IN  IF validator_index >= Len(s.validators) THEN {Outcome("err", s)}
        ELSE IF ~is_active_validator(validator, get_current_epoch(s)) THEN {Outcome("err", s)}
        ELSE IF validator.exit_epoch # FAR_FUTURE_EPOCH THEN {Outcome("err", s)}
        ELSE IF ~(get_current_epoch(s) >= voluntary_exit.epoch) THEN {Outcome("err", s)}
        ELSE IF overflows
        THEN {Outcome("panic", s)}
             \cup {IF ~(get_current_epoch(s) >= WrappingAdd(validator.activation_epoch, SHARD_COMMITTEE_PERIOD))
                   THEN Outcome("err", s)
                   ELSE verified}
        ELSE IF ~(get_current_epoch(s) >= validator.activation_epoch + SHARD_COMMITTEE_PERIOD)
        THEN {Outcome("err", s)}
        ELSE {verified}

ProcessVoluntaryExit ==
    \E validator_index \in 0 .. Len(state.validators),
       epoch \in {ExitEpoch, ExitEpoch + 1},
       signature \in {"invalid", "valid"} :
        LET signed_voluntary_exit == SignedVoluntaryExit(epoch, validator_index, signature)
        IN  \E r \in process_voluntary_exit(state, signed_voluntary_exit) :
                /\ hist < MaxOperations
                /\ pre' = state
                /\ state' = r.val
                /\ hist' = hist + 1
                /\ op' = Call("process_voluntary_exit", signed_voluntary_exit, r.result, <<>>)

ProcessProposerSlashing ==
    \E proposer_index \in 0 .. Len(state.validators),
       body_root \in 1 .. 2,
       signature \in {"invalid", "valid"} :
        LET proposer_slashing ==
                ProposerSlashing(SignedBeaconBlockHeader(state.slot, proposer_index, 1, "valid"),
                                 SignedBeaconBlockHeader(state.slot, proposer_index, body_root, signature))
            r == process_proposer_slashing(state, proposer_slashing)
        IN  /\ hist < MaxOperations
            /\ pre' = state
            /\ state' = r.val
            /\ hist' = hist + 1
            /\ op' = Call("process_proposer_slashing", proposer_slashing, r.result, <<>>)

\* two attestations of the epoch before: the second votes for another target root (a double
\* vote), for the same one (the same data), or is surrounded by the first
\* the first is signed by nobody, by validator 0 or by the whole registry
ProcessAttesterSlashing ==
    \E first \in {{}, {0}, 0 .. Len(state.validators) - 1},
       second \in {SortedSeq(0 .. Len(state.validators) - 1), <<1, 0>>},
       vote \in {"double", "same", "surround"},
       signature \in {"unparsable", "invalid", "valid"} :
        LET target_epoch == ExitEpoch - 1
            data_1 == AttestationData(compute_start_slot_at_epoch(target_epoch), 0, 1,
                                      Checkpoint(IF vote = "surround" THEN GENESIS_EPOCH ELSE target_epoch - 1, 1),
                                      Checkpoint(IF vote = "surround" THEN ExitEpoch ELSE target_epoch, 1))
            data_2 == AttestationData(compute_start_slot_at_epoch(target_epoch), 0, 1,
                                      Checkpoint(IF vote = "surround" THEN GENESIS_EPOCH + 1 ELSE target_epoch - 1, 1),
                                      Checkpoint(target_epoch, IF vote = "double" THEN 2 ELSE 1))
            attester_slashing ==
                AttesterSlashing(IndexedAttestation(SortedSeq(first), data_1, "valid"),
                                 IndexedAttestation(second, data_2, signature))
        IN  /\ hist < MaxOperations
            /\ \E r \in {process_attester_slashing(state, attester_slashing)} :
                    /\ pre' = state
                    /\ state' = r.val
                    /\ hist' = hist + 1
                    /\ op' = Call("process_attester_slashing", attester_slashing, r.result, <<>>)

\* a deposit of MAX_EFFECTIVE_BALANCE for the first validator or for a new public key
ProcessOperationDeposit ==
    \E pubkey \in {1, Len(state.validators) + 1},
       signature \in {"invalid", "valid"} :
        LET deposit == Deposit(pubkey, Credentials(BLS_WITHDRAWAL_PREFIX, 0, pubkey),
                               MAX_EFFECTIVE_BALANCE, signature, TRUE)
            r == process_deposit(state, deposit)
        IN  /\ hist < MaxOperations
            /\ pre' = state
            /\ state' = r.val
            /\ hist' = hist + 1
            /\ op' = Call("process_deposit", deposit, r.result, <<>>)

InitOperations == InitExit

NextOperations ==
    \/ ProcessOperationDeposit
    \/ ProcessVoluntaryExit
    \/ ProcessProposerSlashing
    \/ ProcessAttesterSlashing

SpecOperations == InitOperations /\ [][NextOperations]_vars

\* the order of the four epochs of a validator's life
EpochsInOrder(validator) ==
    /\ validator.activation_eligibility_epoch <= validator.activation_epoch
    /\ validator.activation_epoch <= validator.exit_epoch
    /\ validator.exit_epoch <= validator.withdrawable_epoch

\* C17: every validator satisfies activation_eligibility_epoch <= activation_epoch <=
\* exit_epoch <= withdrawable_epoch in every state reached by deposits, voluntary exits,
\* proposer slashings and attester slashings from a state where it holds.
C17_LifecycleEpochsOrdered ==
    \A k \in 1 .. Len(state.validators) : EpochsInOrder(state.validators[k])

\* the whistleblower rewards paid for slashing the validators of S
RECURSIVE SlashingRewards(_, _)
SlashingRewards(s, S) ==
    IF S = {} THEN 0
    ELSE LET i == CHOOSE x \in S : TRUE
         IN  (At(s.validators, i).effective_balance \div WHISTLEBLOWER_REWARD_QUOTIENT)
             + SlashingRewards(s, S \ {i})

\* C14: after a successful process_attester_slashing every slashable validator in both index
\* sets is marked slashed and its balance is reduced by effective_balance /
\* MIN_SLASHING_PENALTY_QUOTIENT (the proposer of the block, who is also the whistleblower,
\* is paid the rewards on top), and no validator outside the intersection becomes slashed.
C14_AttesterSlashingSlashesCommon ==
    (op.name = "process_attester_slashing" /\ op.result = "ok") =>
        LET common == Range(op.args.attestation_1.attesting_indices)
                      \cap Range(op.args.attestation_2.attesting_indices)
            S == {i \in common : is_slashable_validator(At(pre.validators, i), get_current_epoch(pre))}
            proposer_index == get_beacon_proposer_index(pre).val
        IN  /\ \A i \in S :
                   /\ At(state.validators, i).slashed
                   /\ At(state.balances, i) =
                          Max(0, At(pre.balances, i)
                                 - (At(pre.validators, i).effective_balance \div MIN_SLASHING_PENALTY_QUOTIENT))
                          + (IF i = proposer_index THEN SlashingRewards(pre, S) ELSE 0)
            /\ \A i \in Indices(pre.validators) \ common :
                   At(state.validators, i).slashed = At(pre.validators, i).slashed

----------------------------------------------------------------------------
(* Effective balances: BeaconState::process_effective_balance_updates *)

\* largest registry of the states whose effective balances are updated
MaxEffectiveValidators == 1
\* largest balance a validator holds there
MaxEffectiveBalanceInput == 12
\* deposits and updates in one behaviour
MaxEffectiveSteps == 2

\* the effective balance of validator `index` after its turn in the loop
updated_effective_balance(s, index) ==
    LET balance == At(s.balances, index)
        validator == At(s.validators, index)
        hysteresis_increment == EFFECTIVE_BALANCE_INCREMENT \div HYSTERESIS_QUOTIENT
        downward_threshold == hysteresis_increment * HYSTERESIS_DOWNWARD_MULTIPLIER
        upward_threshold == hysteresis_increment * HYSTERESIS_UPWARD_MULTIPLIER
    IN  IF balance + downward_threshold < validator.effective_balance
           \/ validator.effective_balance + upward_threshold < balance
        THEN Min(balance - (balance % EFFECTIVE_BALANCE_INCREMENT), MAX_EFFECTIVE_BALANCE)
        ELSE validator.effective_balance

\* every effective balance follows its balance, without the cap
process_effective_balance_updates_uncapped(s) ==
    Outcome("ok", [s EXCEPT !.validators =
        [k \in 1 .. Len(s.validators) |->
            [s.validators[k] EXCEPT !.effective_balance =
                s.balances[k] - (s.balances[k] % EFFECTIVE_BALANCE_INCREMENT)]]])

\* every effective balance follows its balance, without hysteresis
process_effective_balance_updates_eager(s) ==
    Outcome("ok", [s EXCEPT !.validators =
        [k \in 1 .. Len(s.validators) |->
            [s.validators[k] EXCEPT !.effective_balance =
                Min(s.balances[k] - (s.balances[k] % EFFECTIVE_BALANCE_INCREMENT), MAX_EFFECTIVE_BALANCE)]]])

\* `self.balances[index]` panics for a validator without a balance
process_effective_balance_updates(s) ==
    IF Len(s.balances) < Len(s.validators) THEN Outcome("panic", s)
    ELSE Outcome("ok", [s EXCEPT !.validators =
             [k \in 1 .. Len(s.validators) |->
                 [s.validators[k] EXCEPT !.effective_balance = updated_effective_balance(s, k - 1)]]])

ProcessEffectiveBalanceUpdates ==
    LET r == process_effective_balance_updates(state)
    IN  /\ hist < MaxEffectiveSteps
        /\ pre' = state
        /\ state' = r.val
        /\ hist' = hist + 1
        /\ op' = Call("process_effective_balance_updates", <<>>, r.result, <<>>)

\* a deposit with a valid branch and signature, for the first validator or a new public key
ProcessEffectiveDeposit ==
    \E pubkey \in {1, Len(state.validators) + 1},
       amount \in {1, MAX_EFFECTIVE_BALANCE + 3} :
        LET deposit == Deposit(pubkey, Credentials(BLS_WITHDRAWAL_PREFIX, 0, pubkey), amount, "valid", TRUE)
            r == process_deposit(state, deposit)
        IN  /\ hist < MaxEffectiveSteps
            /\ pre' = state
            /\ state' = r.val
            /\ hist' = hist + 1
            /\ op' = Call("process_deposit", deposit, r.result, <<>>)

InitEffective ==
    /\ \E n \in 1 .. MaxEffectiveValidators :
        \E effective \in [1 .. n -> {k * EFFECTIVE_BALANCE_INCREMENT :
                                         k \in 0 .. MAX_EFFECTIVE_BALANCE \div EFFECTIVE_BALANCE_INCREMENT}],
           balances \in [1 .. n -> 0 .. MaxEffectiveBalanceInput] :
            state = BeaconState(SLOTS_PER_EPOCH - 1,
                        [k \in 1 .. n |-> [GenesisValidator(k) EXCEPT !.effective_balance = effective[k]]],
                        [k \in 1 .. n |-> balances[k]])
    /\ pre = state
    /\ op = NoCall
    /\ hist = 0

NextEffective == ProcessEffectiveBalanceUpdates \/ ProcessEffectiveDeposit

SpecEffective == InitEffective /\ [][NextEffective]_vars

\* C18: every validator's effective balance is a multiple of EFFECTIVE_BALANCE_INCREMENT and
\* at most MAX_EFFECTIVE_BALANCE in every state reached through deposits and
\* process_effective_balance_updates, whatever the balances.
C18_EffectiveBalanceWellFormed ==
    \A k \in 1 .. Len(state.validators) :
        /\ state.validators[k].effective_balance % EFFECTIVE_BALANCE_INCREMENT = 0
        /\ state.validators[k].effective_balance <= MAX_EFFECTIVE_BALANCE

\* an update has capped the effective balance of a validator whose balance is above the
\* maximum and not a multiple of the increment
C18_Witness ==
    /\ op.name = "process_effective_balance_updates"
    /\ op.result = "ok"
    /\ \E k \in 1 .. Len(state.validators) :
        /\ state.balances[k] > MAX_EFFECTIVE_BALANCE
        /\ state.balances[k] % EFFECTIVE_BALANCE_INCREMENT # 0
        /\ pre.validators[k].effective_balance < MAX_EFFECTIVE_BALANCE
        /\ state.validators[k].effective_balance = MAX_EFFECTIVE_BALANCE

\* the hysteresis condition of validator k, with lo = 1 * INCR / HYSTERESIS_QUOTIENT and
\* hi = 3 * INCR / HYSTERESIS_QUOTIENT
OutsideHysteresis(s, k) ==
    LET lo == (1 * EFFECTIVE_BALANCE_INCREMENT) \div HYSTERESIS_QUOTIENT
        hi == (3 * EFFECTIVE_BALANCE_INCREMENT) \div HYSTERESIS_QUOTIENT
    IN  \/ s.balances[k] + lo < s.validators[k].effective_balance
        \/ s.validators[k].effective_balance + hi < s.balances[k]

\* C19 as stated: process_effective_balance_updates changes a validator's effective balance
\* exactly when balance + lo < effective_balance or effective_balance + hi < balance, to
\* min(balance - balance mod EFFECTIVE_BALANCE_INCREMENT, MAX_EFFECTIVE_BALANCE), and never
\* modifies the balances.
C19_ChangesExactlyOutsideHysteresis ==
    (op.name = "process_effective_balance_updates" /\ op.result = "ok") =>
        /\ state.balances = pre.balances
        /\ \A k \in 1 .. Len(pre.validators) :
               /\ (state.validators[k].effective_balance # pre.validators[k].effective_balance)
                      <=> OutsideHysteresis(pre, k)
               /\ OutsideHysteresis(pre, k) =>
                      state.validators[k].effective_balance =
                          Min(pre.balances[k] - (pre.balances[k] % EFFECTIVE_BALANCE_INCREMENT),
                              MAX_EFFECTIVE_BALANCE)

\* C19, amended: process_effective_balance_updates sets a validator's effective balance to
\* min(balance - balance mod EFFECTIVE_BALANCE_INCREMENT, MAX_EFFECTIVE_BALANCE) exactly when
\* balance + lo < effective_balance or effective_balance + hi < balance (which leaves an
\* effective balance of MAX_EFFECTIVE_BALANCE as it is when the balance is above it),
\* leaves it unchanged otherwise, changes nothing else of a validator and never modifies the
\* balances.
C19_SetExactlyOutsideHysteresis ==
    (op.name = "process_effective_balance_updates" /\ op.result = "ok") =>
        /\ state.balances = pre.balances
        /\ Len(state.validators) = Len(pre.validators)
        /\ \A k \in 1 .. Len(pre.validators) :
               state.validators[k] =
                   [pre.validators[k] EXCEPT !.effective_balance =
                        IF OutsideHysteresis(pre, k)
                        THEN Min(pre.balances[k] - (pre.balances[k] % EFFECTIVE_BALANCE_INCREMENT),
                                 MAX_EFFECTIVE_BALANCE)
                        ELSE @]

\* an update moved the effective balance of a validator whose balance had fallen below the
\* hysteresis band down to a smaller multiple of the increment
C19_Witness ==
    /\ op.name = "process_effective_balance_updates"
    /\ op.result = "ok"
    /\ \E k \in 1 .. Len(pre.validators) :
        /\ OutsideHysteresis(pre, k)
        /\ pre.balances[k] < pre.validators[k].effective_balance
        /\ state.validators[k].effective_balance < pre.validators[k].effective_balance
        /\ state.validators[k].effective_balance > 0

----------------------------------------------------------------------------
(* Attestations: BeaconState::process_attestation *)

\* slot of the states the attestations are processed in
MaxAttestationSlot == 7
\* validators of the registry, all active since genesis
AttestationValidators == 4
\* attestations processed in one behaviour
MaxAttestations == 2

Attestation(aggregation_bits, data, signature) ==
    [aggregation_bits |-> aggregation_bits, data |-> data, signature |-> signature]

\* `(x as f64).sqrt() as u64`
IntegerSquareRoot(n) == CHOOSE r \in 0 .. n : r * r <= n /\ (r + 1) * (r + 1) > n

get_committee_count_per_slot(s, epoch) ==
    Max(1, Min(MAX_COMMITTEES_PER_SLOT,
               (Len(get_active_validator_indices(s, epoch)) \div SLOTS_PER_EPOCH)
                   \div TARGET_COMMITTEE_SIZE))

\* A seed stands for the hashes the shuffle takes of it: seed.pivot[round + 1] is
\* bytes_to_int64(hash(seed || round)) and seed.bit[round + 1][position + 1] is the bit
\* (hash(seed || round || position / 256)[(position % 256) / 8] >> (position % 8)) % 2.
Seed(pivot, bit) == [pivot |-> pivot, bit |-> bit]

\* the rounds of compute_shuffled_index that take the bit of a round at `index` instead of
\* at max(index, flip)
RECURSIVE shuffle_rounds_own_position(_, _, _, _)
shuffle_rounds_own_position(index, index_count, seed, round) ==
    IF round = SHUFFLE_ROUND_COUNT
    THEN index
    ELSE LET pivot == seed.pivot[round + 1] % index_count
             flip == (pivot + (index_count - index)) % index_count
             position == index
             bit == seed.bit[round + 1][position + 1]
         IN  shuffle_rounds_own_position(IF bit = 1 THEN flip ELSE index, index_count, seed,
                                         round + 1)

\* the loop `for round in 0..SHUFFLE_ROUND_COUNT` from `round` on
RECURSIVE shuffle_rounds(_, _, _, _)
shuffle_rounds(index, index_count, seed, round) ==
    IF round = SHUFFLE_ROUND_COUNT
    THEN index
    ELSE LET pivot == seed.pivot[round + 1] % index_count
             flip == (pivot + (index_count - index)) % index_count
             position == Max(index, flip)
             bit == seed.bit[round + 1][position + 1]
         IN  shuffle_rounds(IF bit = 1 THEN flip ELSE index, index_count, seed, round + 1)

compute_shuffled_index(index, index_count, seed) ==
    IF ~(index < index_count) THEN Outcome("err", index)
    ELSE Outcome("ok", shuffle_rounds(index, index_count, seed, 0))

\* compute_committee over the range start ..= end
compute_committee_inclusive(indices, seed, index, count) ==
    LET start == (Len(indices) * index) \div count
        end == ((Len(indices) * (index + 1)) \div count) + 1
        shuffled(i) == compute_shuffled_index(i, Len(indices), seed)
    IN  IF \E i \in start .. end - 1 : shuffled(i).result = "err"
        THEN Outcome("err", <<>>)
        ELSE Outcome("ok", [k \in 1 .. (end - start) |-> At(indices, shuffled(start + k - 1).val)])

\* The first error of compute_shuffled_index in the range is the result of the collect;
\* `indices.get(shuffled_index)` is Some for every shuffled index, which is below
\* indices.len().
compute_committee(indices, seed, index, count) ==
    LET start == (Len(indices) * index) \div count
        end == (Len(indices) * (index + 1)) \div count
        shuffled(i) == compute_shuffled_index(i, Len(indices), seed)
    IN  IF \E i \in start .. end - 1 : shuffled(i).result = "err"
        THEN Outcome("err", <<>>)
        ELSE Outcome("ok", [k \in 1 .. (end - start) |-> At(indices, shuffled(start + k - 1).val)])

\* The randao mixes are not part of the model: the hashes of the seed of an epoch are
\* taken to be pivot epoch + round and bit (position + round + epoch) % 2.
get_seed(s, epoch) ==
    Seed([round \in 1 .. SHUFFLE_ROUND_COUNT |-> epoch + round],
         [round \in 1 .. SHUFFLE_ROUND_COUNT |->
             [position \in 1 .. Len(s.validators) |-> (position + round + epoch) % 2]])

get_beacon_committee(s, slot, index) ==
    LET epoch == compute_epoch_at_slot(slot)
        committees_per_slot == get_committee_count_per_slot(s, epoch)
    IN  compute_committee(get_active_validator_indices(s, epoch), get_seed(s, epoch),
                          (slot % SLOTS_PER_EPOCH) * committees_per_slot + index,
                          committees_per_slot * SLOTS_PER_EPOCH)

\* the members of the committee whose aggregation bit exists and is set, in committee
\* order; process_attestation has returned the error of get_beacon_committee before it
\* comes here
get_attesting_indices(s, attestation) ==
    LET committee == get_beacon_committee(s, attestation.data.slot, attestation.data.index).val
        bits == attestation.aggregation_bits
        picked(i) == i <= Len(bits) /\ bits[i]
        positions == SelectSeq([i \in 1 .. Len(committee) |-> i], picked)
    IN  [j \in 1 .. Len(positions) |-> committee[positions[j]]]

get_indexed_attestation(s, attestation) ==
    IndexedAttestation(SortedSeq(Range(get_attesting_indices(s, attestation))),
                       attestation.data, attestation.signature)

get_base_reward_per_increment(s) ==
    (EFFECTIVE_BALANCE_INCREMENT * BASE_REWARD_FACTOR)
        \div IntegerSquareRoot(get_total_active_balance(s))

get_base_reward(s, index) ==
    (At(s.validators, index).effective_balance \div EFFECTIVE_BALANCE_INCREMENT)
        * get_base_reward_per_increment(s)

\* The block roots are looked up only as far as `&&` evaluates its right operand; a lookup
\* outside the range of block_roots returns the error before `ensure!(is_matching_source)`.
get_attestation_participation_flag_indices(s, data, inclusion_delay) ==
    LET justified_checkpoint == IF data.target.epoch = get_current_epoch(s)
                                THEN s.current_justified_checkpoint
                                ELSE s.previous_justified_checkpoint
        is_matching_source == data.source = justified_checkpoint
        target_root == get_block_root(s, data.target.epoch)
        is_matching_target == is_matching_source /\ data.target.root = target_root.val
        head_root == get_block_root_at_slot(s, data.slot)
        is_matching_head == is_matching_target /\ data.beacon_block_root = head_root.val
    IN  IF is_matching_source /\ target_root.result = "err" THEN Outcome("err", {})
        ELSE IF is_matching_target /\ head_root.result = "err" THEN Outcome("err", {})
        ELSE IF ~is_matching_source THEN Outcome("err", {})
        ELSE Outcome("ok",
                 {f \in {TIMELY_SOURCE_FLAG_INDEX} :
                      inclusion_delay <= IntegerSquareRoot(SLOTS_PER_EPOCH)}
                 \cup {f \in {TIMELY_TARGET_FLAG_INDEX} :
                           is_matching_target /\ inclusion_delay <= SLOTS_PER_EPOCH}
                 \cup {f \in {TIMELY_HEAD_FLAG_INDEX} :
                           is_matching_head /\ inclusion_delay = MIN_ATTESTATION_INCLUSION_DELAY})

\* awarded_flags with the weight of a flag credited whether or not the flag was set before
awarded_flags_always(epoch_part, participation_flag_indices) ==
    LET step(acc, flag_index) ==
            IF flag_index \in participation_flag_indices
            THEN [flags |-> add_flag(acc.flags, flag_index),
                  weight |-> acc.weight + PARTICIPATION_FLAG_WEIGHTS[flag_index + 1]]
            ELSE acc
    IN  step(step(step([flags |-> epoch_part, weight |-> 0], 0), 1), 2)

\* the flags of one validator after the inner loop over PARTICIPATION_FLAG_WEIGHTS, and the
\* weights of the flags newly set
awarded_flags(epoch_part, participation_flag_indices) ==
    LET step(acc, flag_index) ==
            IF flag_index \in participation_flag_indices /\ ~has_flag(acc.flags, flag_index)
            THEN [flags |-> add_flag(acc.flags, flag_index),
                  weight |-> acc.weight + PARTICIPATION_FLAG_WEIGHTS[flag_index + 1]]
            ELSE acc
    IN  step(step(step([flags |-> epoch_part, weight |-> 0], 0), 1), 2)

\* the loop over base_rewards from position k on: the participation list so far and the
\* proposer reward numerator; an index past the end of the list ends the loop with an error
\* and keeps the flags already written
RECURSIVE update_epoch_participation(_, _, _, _, _, _)
update_epoch_participation(s, epoch_participation, attesting_indices, participation_flag_indices, k, numerator) ==
    IF k > Len(attesting_indices)
    THEN [result |-> "ok", val |-> epoch_participation, numerator |-> numerator]
    ELSE LET index == attesting_indices[k]
         IN  IF participation_flag_indices = {}
             THEN update_epoch_participation(s, epoch_participation, attesting_indices,
                                             participation_flag_indices, k + 1, numerator)
             ELSE IF index >= Len(epoch_participation)
             THEN [result |-> "err", val |-> epoch_participation, numerator |-> numerator]
             ELSE LET awarded == awarded_flags(At(epoch_participation, index),
                                               participation_flag_indices)
                  IN  update_epoch_participation(
                          s, [epoch_participation EXCEPT ![index + 1] = awarded.flags],
                          attesting_indices, participation_flag_indices, k + 1,
                          numerator + get_base_reward(s, index) * awarded.weight)

process_attestation(s, attestation) ==
    LET data == attestation.data
        committee == get_beacon_committee(s, data.slot, data.index)
        flag_indices == get_attestation_participation_flag_indices(s, data, s.slot - data.slot)
        valid == is_valid_indexed_attestation(s, get_indexed_attestation(s, attestation))
        attesting_indices == get_attesting_indices(s, attestation)
        current == data.target.epoch = get_current_epoch(s)
        updated == update_epoch_participation(
                       s,
                       IF current THEN s.current_epoch_participation
                       ELSE s.previous_epoch_participation,
                       attesting_indices, flag_indices.val, 1, 0)
        written == IF current
                   THEN [s EXCEPT !.current_epoch_participation = updated.val]
                   ELSE [s EXCEPT !.previous_epoch_participation = updated.val]
        proposer_reward_denominator ==
            ((WEIGHT_DENOMINATOR - PROPOSER_WEIGHT) * WEIGHT_DENOMINATOR) \div PROPOSER_WEIGHT
        proposer_reward == updated.numerator \div proposer_reward_denominator
        proposer_index == get_beacon_proposer_index(written)
    IN  IF data.target.epoch # get_previous_epoch(s) /\ data.target.epoch # get_current_epoch(s)
        THEN Outcome("err", s)
        ELSE IF data.target.epoch # compute_epoch_at_slot(data.slot) THEN Outcome("err", s)
        ELSE IF ~(data.slot + MIN_ATTESTATION_INCLUSION_DELAY <= s.slot) THEN Outcome("err", s)
        ELSE IF ~(data.index < get_committee_count_per_slot(s, data.target.epoch))
        THEN Outcome("err", s)
        ELSE IF committee.result = "err" THEN Outcome("err", s)
        ELSE IF Len(attestation.aggregation_bits) # Len(committee.val) THEN Outcome("err", s)
        ELSE IF flag_indices.result = "err" THEN Outcome("err", s)
        ELSE IF valid.result = "err" \/ ~valid.val THEN Outcome("err", s)
        ELSE IF updated.result = "err" THEN Outcome("err", written)
        ELSE IF proposer_index.result = "err" THEN Outcome("err", written)
        ELSE Outcome("ok", increase_balance(written, proposer_index.val, proposer_reward))

\* an attestation for slot `slot` and committee `index`, for the target epoch of the slot or
\* the epoch after it, whose vote matches the state or differs in one root, with the
\* aggregation bits of the whole committee, of nobody or one bit too many
ProcessAttestation ==
    \E slot \in 0 .. state.slot + 1, index \in {0, 1}, epoch_offset \in {0, 1},
       vote \in {"matching", "source", "target", "head"},
       bits \in {"all", "none", "long"}, signature \in {"valid", "invalid", "unparsable"} :
        LET target_epoch == compute_epoch_at_slot(slot) + epoch_offset
            justified == IF target_epoch = get_current_epoch(state)
                         THEN state.current_justified_checkpoint
                         ELSE state.previous_justified_checkpoint
            data == AttestationData(
                        slot, index,
                        IF vote = "head" THEN 1 ELSE 0,
                        IF vote = "source" THEN Checkpoint(justified.epoch, justified.root + 1)
                        ELSE justified,
                        Checkpoint(target_epoch, IF vote = "target" THEN 1 ELSE 0))
            size == Len(get_beacon_committee(state, slot, index).val)
            aggregation_bits == CASE bits = "all" -> [i \in 1 .. size |-> TRUE]
                                  [] bits = "none" -> [i \in 1 .. size |-> FALSE]
                                  [] bits = "long" -> [i \in 1 .. size + 1 |-> TRUE]
            r == process_attestation(state, Attestation(aggregation_bits, data, signature))
        IN  /\ hist < MaxAttestations
            /\ pre' = state
            /\ state' = r.val
            /\ hist' = hist + 1
            /\ op' = Call("process_attestation", [slot |-> slot], r.result, <<>>)

\* the registry of genesis validators at a slot of the first two epochs, before any
\* attestation of those epochs was processed
InitAttestation ==
    /\ \E slot \in 1 .. MaxAttestationSlot :
        state = BeaconState(slot, [k \in 1 .. AttestationValidators |-> GenesisValidator(k)],
                            [k \in 1 .. AttestationValidators |-> MAX_EFFECTIVE_BALANCE])
    /\ pre = state
    /\ op = NoCall
    /\ hist = 0

NextAttestation == ProcessAttestation

SpecAttestation == InitAttestation /\ [][NextAttestation]_vars

\* C20: process_attestation accepts an attestation only if its inclusion delay
\* state.slot - data.slot lies in [MIN_ATTESTATION_INCLUSION_DELAY, SLOTS_PER_EPOCH]; with a
\* delay below the minimum or above SLOTS_PER_EPOCH the call returns an error and leaves the
\* state unchanged.
C20_InclusionDelayInRange ==
    (op.name = "process_attestation") =>
        LET in_range == /\ op.args.slot + MIN_ATTESTATION_INCLUSION_DELAY <= pre.slot
                        /\ pre.slot <= op.args.slot + SLOTS_PER_EPOCH
        IN  /\ op.result = "ok" => in_range
            /\ ~in_range => (op.result = "err" /\ state = pre)

----------------------------------------------------------------------------
(* Participation flags and the proposer reward of process_attestation *)

\* slot of the state the attestations are included in
ParticipationSlot == 6

\* a validly signed attestation of an earlier slot of the previous or current epoch, by the
\* whole committee or by its first member, whose vote matches the state or differs in the
\* target root or in the head root
ProcessValidAttestation ==
    \E slot \in 0 .. state.slot - 1, vote \in {"matching", "target", "head"},
       bits \in {"all", "first"} :
        LET target_epoch == compute_epoch_at_slot(slot)
            justified == IF target_epoch = get_current_epoch(state)
                         THEN state.current_justified_checkpoint
                         ELSE state.previous_justified_checkpoint
            data == AttestationData(slot, 0, IF vote = "head" THEN 1 ELSE 0, justified,
                                    Checkpoint(target_epoch, IF vote = "target" THEN 1 ELSE 0))
            size == Len(get_beacon_committee(state, slot, 0).val)
            aggregation_bits == [i \in 1 .. size |-> bits = "all" \/ i = 1]
            attestation == Attestation(aggregation_bits, data, "valid")
            r == process_attestation(state, attestation)
        IN  /\ hist < MaxAttestations
            /\ pre' = state
            /\ state' = r.val
            /\ hist' = hist + 1
            /\ op' = Call("process_attestation", [attestation |-> attestation], r.result, <<>>)

InitParticipation ==
    /\ state = BeaconState(ParticipationSlot,
                           [k \in 1 .. AttestationValidators |-> GenesisValidator(k)],
                           [k \in 1 .. AttestationValidators |-> MAX_EFFECTIVE_BALANCE])
    /\ pre = state
    /\ op = NoCall
    /\ hist = 0

NextParticipation == ProcessValidAttestation

SpecParticipation == InitParticipation /\ [][NextParticipation]_vars

\* the participation list process_attestation writes for the target epoch of `data`
TargetParticipation(s, data) ==
    IF data.target.epoch = compute_epoch_at_slot(pre.slot)
    THEN s.current_epoch_participation
    ELSE s.previous_epoch_participation

\* the (attester, flag) pairs of the accepted attestation whose flag was not set before
NewlySetFlags ==
    LET attestation == op.args.attestation
        flags == get_attestation_participation_flag_indices(
                     pre, attestation.data, pre.slot - attestation.data.slot).val
    IN  {pair \in Range(get_attesting_indices(pre, attestation)) \X flags :
             ~has_flag(At(TargetParticipation(pre, attestation.data), pair[1]), pair[2])}

RECURSIVE WeightedBaseRewards(_)
WeightedBaseRewards(pairs) ==
    IF pairs = {}
    THEN 0
    ELSE LET pair == CHOOSE x \in pairs : TRUE
         IN  get_base_reward(pre, pair[1]) * PARTICIPATION_FLAG_WEIGHTS[pair[2] + 1]
                 + WeightedBaseRewards(pairs \ {pair})

\* C21: an accepted attestation credits the proposer with the sum of base_reward(v) *
\* weight(flag) over exactly the (attester v, flag) pairs whose flag was not already set,
\* divided by the proposer reward denominator, and changes no other balance; processing the
\* same attestation again leaves the state (participation lists and balances) unchanged;
\* no bit of a participation list is ever cleared.
C21_RewardForNewFlagsOnly ==
    (op.name = "process_attestation" /\ op.result = "ok") =>
        LET denominator == ((WEIGHT_DENOMINATOR - PROPOSER_WEIGHT) * WEIGHT_DENOMINATOR)
                               \div PROPOSER_WEIGHT
            reward == WeightedBaseRewards(NewlySetFlags) \div denominator
            proposer == get_beacon_proposer_index(pre).val
        IN  /\ state.balances = [pre.balances EXCEPT ![proposer + 1] = @ + reward]
            /\ \A pair \in NewlySetFlags :
                   has_flag(At(TargetParticipation(state, op.args.attestation.data), pair[1]),
                            pair[2])
            /\ \A i \in 1 .. Len(pre.validators), k \in 0 .. 7 :
                   /\ BitSet(pre.current_epoch_participation[i], k)
                          => BitSet(state.current_epoch_participation[i], k)
                   /\ BitSet(pre.previous_epoch_participation[i], k)
                          => BitSet(state.previous_epoch_participation[i], k)
            /\ process_attestation(state, op.args.attestation) = Outcome("ok", state)

\* an accepted attestation set a new flag for an attester that already had another flag,
\* and the proposer was paid for it
C21_Witness ==
    /\ op.name = "process_attestation"
    /\ op.result = "ok"
    /\ NewlySetFlags # {}
    /\ \E v \in Range(get_attesting_indices(pre, op.args.attestation)) :
           /\ At(TargetParticipation(pre, op.args.attestation.data), v) # 0
           /\ At(TargetParticipation(state, op.args.attestation.data), v)
                  # At(TargetParticipation(pre, op.args.attestation.data), v)
    /\ state.balances # pre.balances

----------------------------------------------------------------------------
(* Voluntary exits: the conditions of acceptance *)

\* C22: process_voluntary_exit succeeds only for a validator that is active at the current
\* epoch (activation_epoch <= current_epoch < exit_epoch), has exit_epoch =
\* FAR_FUTURE_EPOCH, with current_epoch >= the epoch of the exit, current_epoch >=
\* activation_epoch + SHARD_COMMITTEE_PERIOD and a signature that verifies; a success sets
\* the validator's exit_epoch, and a voluntary exit for a validator whose exit_epoch is set
\* is rejected with the state unchanged.
C22_VoluntaryExitOnlyWhenEligible ==
    (op.name = "process_voluntary_exit") =>
        LET index == op.args.message.validator_index
            current_epoch == compute_epoch_at_slot(pre.slot)
        IN  /\ op.result = "ok" =>
                   /\ index < Len(pre.validators)
                   /\ At(pre.validators, index).activation_epoch <= current_epoch
                   /\ current_epoch < At(pre.validators, index).exit_epoch
                   /\ At(pre.validators, index).exit_epoch = FAR_FUTURE_EPOCH
                   /\ current_epoch >= op.args.message.epoch
                   /\ current_epoch >= At(pre.validators, index).activation_epoch
                                           + SHARD_COMMITTEE_PERIOD
                   /\ op.args.signature = "valid"
                   /\ At(state.validators, index).exit_epoch # FAR_FUTURE_EPOCH
            /\ (index < Len(pre.validators)
                    /\ At(pre.validators, index).exit_epoch # FAR_FUTURE_EPOCH) =>
                   (op.result = "err" /\ state = pre)

----------------------------------------------------------------------------
(* BLS to execution changes: BeaconState::process_bls_to_execution_change *)

\* validators of the registry
BlsValidators == 2
\* address changes processed in one behaviour
MaxBlsChanges == 2

\* sha256 of the bytes of a public key: 32 bytes that differ from key to key
hash(pubkey) == [i \in 1 .. 32 |-> (pubkey * 32 + i) % 256]

\* the withdrawal keys an address change names: bytes that are no public key, and two keys
BlsKeys == {UnparsablePubkey, 1, 2}

BLSToExecutionChange(validator_index, from_bls_pubkey, to_execution_address) ==
    [validator_index |-> validator_index, from_bls_pubkey |-> from_bls_pubkey,
     to_execution_address |-> to_execution_address]

SignedBLSToExecutionChange(message, signature) == [message |-> message, signature |-> signature]

\* a 20-byte execution address
ExecutionAddress(a) == [i \in 1 .. 20 |-> a]

\* process_bls_to_execution_change that writes the new credentials under the prefix they had
process_bls_to_execution_change_same_prefix(s, signed_address_change) ==
    LET address_change == signed_address_change.message
        index == address_change.validator_index
        validator == At(s.validators, index)
        withdrawal_credentials == <<BLS_WITHDRAWAL_PREFIX>> \o [i \in 1 .. 11 |-> 0]
                                      \o address_change.to_execution_address
    IN  IF ~(index < Len(s.validators)) THEN Outcome("err", s)
        ELSE IF validator.withdrawal_credentials[1] # BLS_WITHDRAWAL_PREFIX THEN Outcome("err", s)
        ELSE IF Tail(validator.withdrawal_credentials) # Tail(hash(address_change.from_bls_pubkey))
        THEN Outcome("err", s)
        ELSE IF signed_address_change.signature = "unparsable" THEN Outcome("err", s)
        ELSE IF address_change.from_bls_pubkey = UnparsablePubkey THEN Outcome("err", s)
        ELSE IF signed_address_change.signature # "valid" THEN Outcome("err", s)
        ELSE Outcome("ok", [s EXCEPT !.validators[index + 1].withdrawal_credentials =
                                         withdrawal_credentials])

process_bls_to_execution_change(s, signed_address_change) ==
    LET address_change == signed_address_change.message
        index == address_change.validator_index
        validator == At(s.validators, index)
        withdrawal_credentials == <<ETH1_ADDRESS_WITHDRAWAL_PREFIX>> \o [i \in 1 .. 11 |-> 0]
                                      \o address_change.to_execution_address
    IN  IF ~(index < Len(s.validators)) THEN Outcome("err", s)
        ELSE IF validator.withdrawal_credentials[1] # BLS_WITHDRAWAL_PREFIX THEN Outcome("err", s)
        ELSE IF Tail(validator.withdrawal_credentials) # Tail(hash(address_change.from_bls_pubkey))
        THEN Outcome("err", s)
        ELSE IF signed_address_change.signature = "unparsable" THEN Outcome("err", s)
        ELSE IF address_change.from_bls_pubkey = UnparsablePubkey THEN Outcome("err", s)
        ELSE IF signed_address_change.signature # "valid" THEN Outcome("err", s)
        ELSE Outcome("ok", [s EXCEPT !.validators[index + 1].withdrawal_credentials =
                                         withdrawal_credentials])

ProcessBlsToExecutionChange ==
    \E validator_index \in 0 .. Len(state.validators), from_bls_pubkey \in BlsKeys,
       address \in {1, 2}, signature \in {"valid", "invalid", "unparsable"} :
        LET signed_address_change ==
                SignedBLSToExecutionChange(
                    BLSToExecutionChange(validator_index, from_bls_pubkey,
                                         ExecutionAddress(address)),
                    signature)
            r == process_bls_to_execution_change(state, signed_address_change)
        IN  /\ hist < MaxBlsChanges
            /\ pre' = state
            /\ state' = r.val
            /\ hist' = hist + 1
            /\ op' = Call("process_bls_to_execution_change", signed_address_change, r.result, <<>>)

\* validators with BLS credentials that commit to a withdrawal key (a parsable one or bytes
\* that are no public key), or with execution credentials from their deposit
BlsChangeValidators(pubkey) ==
    {[GenesisValidator(pubkey) EXCEPT !.withdrawal_credentials =
          <<BLS_WITHDRAWAL_PREFIX>> \o Tail(hash(key))] : key \in BlsKeys}
    \cup {[GenesisValidator(pubkey) EXCEPT !.withdrawal_credentials =
               Credentials(ETH1_ADDRESS_WITHDRAWAL_PREFIX, 0, pubkey)]}

InitBlsChange ==
    /\ \E validators \in [1 .. BlsValidators ->
                             UNION {BlsChangeValidators(k) : k \in 1 .. BlsValidators}] :
        /\ \A k \in 1 .. BlsValidators : validators[k].pubkey = k
        /\ state = BeaconState(1, validators, [k \in 1 .. BlsValidators |-> MAX_EFFECTIVE_BALANCE])
    /\ pre = state
    /\ op = NoCall
    /\ hist = 0

NextBlsChange == ProcessBlsToExecutionChange

SpecBlsChange == InitBlsChange /\ [][NextBlsChange]_vars

\* C23: a successful process_bls_to_execution_change rewrites only the named validator's
\* withdrawal_credentials, to ETH1_ADDRESS_WITHDRAWAL_PREFIX, 11 zero bytes and the 20 bytes
\* of the execution address; the call is rejected with the state unchanged if the validator
\* index is out of range or the credentials do not start with the BLS withdrawal prefix,
\* which the rewritten credentials never do, so a second change is rejected.
C23_BlsChangeRewritesCredentials ==
    (op.name = "process_bls_to_execution_change") =>
        LET index == op.args.message.validator_index
            rewritten == <<ETH1_ADDRESS_WITHDRAWAL_PREFIX>> \o <<0, 0, 0, 0, 0, 0, 0, 0, 0, 0, 0>>
                             \o op.args.message.to_execution_address
        IN  /\ op.result = "ok" =>
                   /\ index < Len(pre.validators)
                   /\ state = [pre EXCEPT !.validators[index + 1].withdrawal_credentials = rewritten]
                   /\ Len(rewritten) = 32
                   /\ rewritten[1] # BLS_WITHDRAWAL_PREFIX
            /\ (\/ index >= Len(pre.validators)
                \/ At(pre.validators, index).withdrawal_credentials[1] # BLS_WITHDRAWAL_PREFIX) =>
                   (op.result = "err" /\ state = pre)
            /\ op.result \in {"ok", "err"}

\* a second change for a validator whose credentials an earlier change of the behaviour
\* rewrote was rejected
C23_Witness ==
    /\ op.name = "process_bls_to_execution_change"
    /\ op.result = "err"
    /\ op.args.signature = "valid"
    /\ hist >= 2
    /\ \E index \in Indices(state.validators) :
        /\ index = op.args.message.validator_index
        /\ At(state.validators, index).withdrawal_credentials =
               <<ETH1_ADDRESS_WITHDRAWAL_PREFIX>> \o [i \in 1 .. 11 |-> 0] \o ExecutionAddress(2)
        /\ op.args.message.to_execution_address = ExecutionAddress(1)

----------------------------------------------------------------------------
(* Sync aggregates: BeaconState::process_sync_aggregate *)

\* validators of the registry, all active since genesis
SyncValidators == 2
\* largest slot of the state a block with a sync aggregate is processed in
MaxSyncSlot == 2
\* sync aggregates processed in one behaviour
MaxSyncAggregates == 2

SyncCommittee(pubkeys) == [pubkeys |-> pubkeys]

SyncAggregate(sync_committee_bits, sync_committee_signature) ==
    [sync_committee_bits |-> sync_committee_bits,
     sync_committee_signature |-> sync_committee_signature]

\* eth_fast_aggregate_verify without the case of no public keys and the point at infinity
eth_fast_aggregate_verify_strict(pubkeys, signature) ==
    IF \E k \in 1 .. Len(pubkeys) : pubkeys[k] = UnparsablePubkey THEN Outcome("err", FALSE)
    ELSE IF signature = "unparsable" THEN Outcome("err", FALSE)
    ELSE Outcome("ok", signature = "valid" /\ Len(pubkeys) > 0)

\* A signature is "infinity" (G2_POINT_AT_INFINITY), "valid" (the aggregate signature of
\* exactly the given public keys over the message), "invalid" or "unparsable".  The point at
\* infinity parses as a signature and verifies for no set of public keys.
eth_fast_aggregate_verify(pubkeys, signature) ==
    IF Len(pubkeys) = 0 /\ signature = "infinity" THEN Outcome("ok", TRUE)
    ELSE IF \E k \in 1 .. Len(pubkeys) : pubkeys[k] = UnparsablePubkey THEN Outcome("err", FALSE)
    ELSE IF signature = "unparsable" THEN Outcome("err", FALSE)
    ELSE Outcome("ok", signature = "valid" /\ Len(pubkeys) > 0)

\* the loop over the committee from position k on: rewards for the set bits, each with a
\* reward for the proposer, penalties for the others; an error of
\* get_beacon_proposer_index ends the loop and keeps the balances already written
RECURSIVE apply_sync_rewards(_, _, _, _, _, _)
apply_sync_rewards(s, committee_indices, bits, participant_reward, proposer_reward, k) ==
    IF k > Min(Len(committee_indices), Len(bits))
    THEN Outcome("ok", s)
    ELSE IF bits[k]
    THEN LET rewarded == increase_balance(s, committee_indices[k], participant_reward)
             proposer_index == get_beacon_proposer_index(rewarded)
         IN  IF proposer_index.result = "err" THEN Outcome("err", rewarded)
             ELSE apply_sync_rewards(increase_balance(rewarded, proposer_index.val, proposer_reward),
                                     committee_indices, bits, participant_reward,
                                     proposer_reward, k + 1)
    ELSE apply_sync_rewards(decrease_balance(s, committee_indices[k], participant_reward),
                            committee_indices, bits, participant_reward, proposer_reward, k + 1)

process_sync_aggregate(s, sync_aggregate) ==
    LET committee_pubkeys == s.current_sync_committee.pubkeys
        bits == sync_aggregate.sync_committee_bits
        participating(k) == k <= Len(bits) /\ bits[k]
        positions == SelectSeq([k \in 1 .. Len(committee_pubkeys) |-> k], participating)
        participant_pubkeys == [j \in 1 .. Len(positions) |-> committee_pubkeys[positions[j]]]
        previous_slot == Max(s.slot, 1) - 1
        block_root == get_block_root_at_slot(s, previous_slot)
        is_valid == eth_fast_aggregate_verify(participant_pubkeys,
                                              sync_aggregate.sync_committee_signature)
        total_active_increments == get_total_active_balance(s) \div EFFECTIVE_BALANCE_INCREMENT
        total_base_rewards == get_base_reward_per_increment(s) * total_active_increments
        max_participant_rewards ==
            ((total_base_rewards * SYNC_REWARD_WEIGHT) \div WEIGHT_DENOMINATOR) \div SLOTS_PER_EPOCH
        participant_reward == max_participant_rewards \div SYNC_COMMITTEE_SIZE
        proposer_reward ==
            (participant_reward * PROPOSER_WEIGHT) \div (WEIGHT_DENOMINATOR - PROPOSER_WEIGHT)
        position(pubkey) ==
            IF \E i \in 1 .. Len(s.validators) : s.validators[i].pubkey = pubkey
            THEN <<(CHOOSE i \in 1 .. Len(s.validators) :
                        /\ s.validators[i].pubkey = pubkey
                        /\ \A j \in 1 .. i - 1 : s.validators[j].pubkey # pubkey) - 1>>
            ELSE <<>>
        found == \A k \in 1 .. Len(committee_pubkeys) : position(committee_pubkeys[k]) # <<>>
        committee_indices ==
            [k \in 1 .. Len(committee_pubkeys) |-> position(committee_pubkeys[k])[1]]
    IN  IF block_root.result = "err" THEN Outcome("err", s)
        ELSE IF is_valid.result = "err" \/ ~is_valid.val THEN Outcome("err", s)
        ELSE IF ~found THEN Outcome("err", s)
        ELSE apply_sync_rewards(s, committee_indices, bits, participant_reward,
                                proposer_reward, 1)

ProcessSyncAggregate ==
    \E sync_committee_bits \in [1 .. SYNC_COMMITTEE_SIZE -> BOOLEAN],
       sync_committee_signature \in {"infinity", "valid", "invalid", "unparsable"} :
        LET sync_aggregate == SyncAggregate(sync_committee_bits, sync_committee_signature)
            r == process_sync_aggregate(state, sync_aggregate)
        IN  /\ hist < MaxSyncAggregates
            /\ pre' = state
            /\ state' = r.val
            /\ hist' = hist + 1
            /\ op' = Call("process_sync_aggregate", sync_aggregate, r.result, <<>>)

\* The state a block is processed in has a slot of at least 1 (process_block_header accepts
\* a block only at a slot above the one of the latest header); the sync committee holds
\* SYNC_COMMITTEE_SIZE public keys of the registry, with repetitions.
InitSync ==
    /\ \E slot \in 1 .. MaxSyncSlot,
          pubkeys \in [1 .. SYNC_COMMITTEE_SIZE -> 1 .. SyncValidators] :
        state = BeaconState(slot, [k \in 1 .. SyncValidators |-> GenesisValidator(k)],
                            [k \in 1 .. SyncValidators |-> MAX_EFFECTIVE_BALANCE])
                    @@ [current_sync_committee |-> SyncCommittee(pubkeys)]
    /\ pre = state
    /\ op = NoCall
    /\ hist = 0

NextSync == ProcessSyncAggregate

SpecSync == InitSync /\ [][NextSync]_vars

\* C24: with all sync_committee_bits zero and the signature G2_POINT_AT_INFINITY,
\* process_sync_aggregate succeeds and no balance, of a committee member or of the
\* proposer, increases.
C24_EmptySyncAggregateAccepted ==
    (/\ op.name = "process_sync_aggregate"
     /\ \A k \in 1 .. Len(op.args.sync_committee_bits) : ~op.args.sync_committee_bits[k]
     /\ op.args.sync_committee_signature = "infinity") =>
        /\ op.result = "ok"
        /\ Len(state.balances) = Len(pre.balances)
        /\ \A i \in 1 .. Len(pre.balances) : state.balances[i] <= pre.balances[i]

\* an empty aggregate with the point at infinity was accepted after an aggregate with
\* participants had paid rewards
C24_Witness ==
    /\ op.name = "process_sync_aggregate"
    /\ \A k \in 1 .. Len(op.args.sync_committee_bits) : ~op.args.sync_committee_bits[k]
    /\ op.args.sync_committee_signature = "infinity"
    /\ op.result = "ok"
    /\ \E i \in 1 .. Len(state.balances) : state.balances[i] > MAX_EFFECTIVE_BALANCE

----------------------------------------------------------------------------
(* The shuffle: compute_shuffled_index *)

\* largest index_count, and largest value of bytes_to_int64 of a hash
MaxIndexCount == 3

\* Here `state` is the list length and the seed (the hashes) the shuffle is taken under.
ComputeShuffledIndex ==
    \E index \in 0 .. state.index_count :
        LET r == compute_shuffled_index(index, state.index_count, state.seed)
        IN  /\ pre' = state
            /\ UNCHANGED <<state, hist>>
            /\ op' = Call("compute_shuffled_index", [index |-> index], r.result, r.val)

\* every index_count from 1 on with every value of the hashes of the seed
InitShuffle ==
    /\ \E index_count \in 1 .. MaxIndexCount :
        \E pivot \in [1 .. SHUFFLE_ROUND_COUNT -> 0 .. MaxIndexCount],
           bit \in [1 .. SHUFFLE_ROUND_COUNT -> [1 .. index_count -> {0, 1}]] :
            state = [index_count |-> index_count, seed |-> Seed(pivot, bit)]
    /\ pre = state
    /\ op = NoCall
    /\ hist = 0

NextShuffle == ComputeShuffledIndex

SpecShuffle == InitShuffle /\ [][NextShuffle]_vars

\* C25: for every index_count n >= 1 and every seed, compute_shuffled_index maps [0, n)
\* one-to-one into [0, n): the result of an index below n is below n and no other index
\* below n has the same result; an index >= n gives an error.
C25_ShuffleIsPermutation ==
    (op.name = "compute_shuffled_index") =>
        IF op.args.index < state.index_count
        THEN /\ op.result = "ok"
             /\ op.ret \in 0 .. state.index_count - 1
             /\ \A other \in 0 .. state.index_count - 1 :
                    other # op.args.index =>
                        compute_shuffled_index(other, state.index_count, state.seed).val # op.ret
        ELSE op.result = "err"

\* the last index of a list of the largest length was moved by the second round of the
\* shuffle after the first had moved it
C25_Witness ==
    /\ op.name = "compute_shuffled_index"
    /\ op.result = "ok"
    /\ state.index_count = MaxIndexCount
    /\ op.args.index = MaxIndexCount - 1
    /\ op.ret # op.args.index
    /\ shuffle_rounds(op.args.index, state.index_count, state.seed, SHUFFLE_ROUND_COUNT - 1)
           # op.ret
    /\ shuffle_rounds(op.args.index, state.index_count, state.seed, SHUFFLE_ROUND_COUNT - 1)
           # op.args.index

----------------------------------------------------------------------------
(* Committees: compute_committee *)

\* largest number of indices that are split into committees
MaxCommitteeIndices == 3
\* largest number of committees (`count`)
MaxCommitteeCount == 3

\* Here `state` is the list of indices, the seed and the number of committees.
ComputeCommittee ==
    \E index \in 0 .. state.count :
        LET r == compute_committee(state.indices, state.seed, index, state.count)
        IN  /\ pre' = state
            /\ UNCHANGED <<state, hist>>
            /\ op' = Call("compute_committee", [index |-> index], r.result, r.val)

\* lists of distinct validator indices in ascending order, as get_active_validator_indices
\* returns them, with every value of the hashes of the seed and every count from 1 on
InitCommittee ==
    /\ \E n \in 0 .. MaxCommitteeIndices, count \in 1 .. MaxCommitteeCount :
        \E pivot \in [1 .. SHUFFLE_ROUND_COUNT -> 0 .. MaxCommitteeIndices],
           bit \in [1 .. SHUFFLE_ROUND_COUNT -> [1 .. n -> {0, 1}]] :
            state = [indices |-> [i \in 1 .. n |-> 2 * i - 1], seed |-> Seed(pivot, bit),
                     count |-> count]
    /\ pre = state
    /\ op = NoCall
    /\ hist = 0

NextCommittee == ComputeCommittee

SpecCommittee == InitCommittee /\ [][NextCommittee]_vars

\* committee k of the state, as the code computes it
CommitteeOf(k) == compute_committee(state.indices, state.seed, k, state.count).val

\* C26: compute_committee(indices, seed, k, count) returns
\* indices[compute_shuffled_index(i, n, seed)] for i in [floor(n*k/count),
\* floor(n*(k+1)/count)); for distinct indices and count >= 1 the committees of
\* k = 0 .. count - 1 are pairwise disjoint, hold no index twice, and their union is the
\* set of indices.
C26_CommitteesPartitionIndices ==
    (op.name = "compute_committee" /\ op.args.index < state.count) =>
        LET n == Len(state.indices)
            k == op.args.index
            start == (n * k) \div state.count
            end == (n * (k + 1)) \div state.count
        IN  /\ op.result = "ok"
            /\ Len(op.ret) = end - start
            /\ \A i \in start .. end - 1 :
                   op.ret[i - start + 1] =
                       At(state.indices, compute_shuffled_index(i, n, state.seed).val)
            /\ \A a, b \in 1 .. Len(op.ret) : a # b => op.ret[a] # op.ret[b]
            /\ \A other \in 0 .. state.count - 1 :
                   other # k => Range(op.ret) \cap Range(CommitteeOf(other)) = {}
            /\ UNION {Range(CommitteeOf(j)) : j \in 0 .. state.count - 1} = Range(state.indices)

\* a committee of several committees was computed that holds some but not all of the
\* indices, one of them moved by the shuffle
C26_Witness ==
    /\ op.name = "compute_committee"
    /\ op.result = "ok"
    /\ state.count > 1
    /\ op.args.index > 0
    /\ Len(op.ret) > 0
    /\ Len(op.ret) < Len(state.indices)
    /\ \E j \in 0 .. state.count - 1 : j # op.args.index /\ Len(CommitteeOf(j)) > 0
    /\ op.ret[1] # At(state.indices, (Len(state.indices) * op.args.index) \div state.count)

----------------------------------------------------------------------------
(* Proposer selection: the loop of BeaconState::compute_proposer_index *)

\* largest number of candidates (`indices.len()`)
MaxProposerCandidates == 2

\* the acceptance test with > in place of >=
accepts_candidate_strict(effective_balance, random_byte) ==
    effective_balance * MAX_RANDOM_BYTE > MAX_EFFECTIVE_BALANCE * random_byte

\* `(effective_balance * MAX_RANDOM_BYTE) >= (MAX_EFFECTIVE_BALANCE * random_byte as u64)`
accepts_candidate(effective_balance, random_byte) ==
    effective_balance * MAX_RANDOM_BYTE >= MAX_EFFECTIVE_BALANCE * random_byte

\* Here `state` is the loop: the effective balances of the registry, the arguments
\* `indices` and `seed`, the counter i and the place in the code ("start", "loop", "done").
\* state.random_byte[i + 1] is hash(seed || i / 32)[i % 32]; the hashes taken are those
\* that repeat after indices.len() iterations, and the loop reads nothing else of i than
\* i % indices.len(), so i is kept modulo twice indices.len(): an iteration that rejects its
\* candidate always moves the counter.
candidate_index(s, i) ==
    At(s.indices, compute_shuffled_index(i % Len(s.indices), Len(s.indices), s.seed).val)

\* `ensure!(!indices.is_empty(), ...)` and the entry of the loop
EnterProposerLoop ==
    /\ state.pc = "start"
    /\ pre' = state
    /\ UNCHANGED hist
    /\ IF Len(state.indices) = 0
       THEN /\ state' = [state EXCEPT !.pc = "done"]
            /\ op' = Call("compute_proposer_index", <<>>, "err", <<>>)
       ELSE /\ state' = [state EXCEPT !.pc = "loop", !.i = 0]
            /\ op' = Call("compute_proposer_index", <<>>, "running", <<>>)

\* one iteration of `loop { ... i += 1; }`
ProposerIteration ==
    /\ state.pc = "loop"
    /\ pre' = state
    /\ UNCHANGED hist
    /\ LET candidate == candidate_index(state, state.i)
           random_byte == state.random_byte[(state.i % Len(state.indices)) + 1]
           effective_balance == At(state.validators, candidate).effective_balance
       IN  IF accepts_candidate(effective_balance, random_byte)
           THEN /\ state' = [state EXCEPT !.pc = "done"]
                /\ op' = Call("compute_proposer_index", <<>>, "ok", <<candidate>>)
           ELSE /\ state' = [state EXCEPT !.i = (state.i + 1) % (2 * Len(state.indices))]
                /\ op' = Call("compute_proposer_index", <<>>, "running", <<>>)

\* registries of validators with effective balances that are multiples of the increment,
\* all of them candidates, with the bytes 0, 127, 128 and 255 of the hash
InitProposer ==
    /\ \E n \in 0 .. MaxProposerCandidates :
        \E effective_balances \in [1 .. n -> {0, EFFECTIVE_BALANCE_INCREMENT, MAX_EFFECTIVE_BALANCE}],
           random_byte \in [1 .. n -> {0, 127, 128, MAX_RANDOM_BYTE}],
           pivot \in [1 .. SHUFFLE_ROUND_COUNT -> {0, 1}], bit \in {0, 1} :
            state = [validators |-> [k \in 1 .. n |-> [effective_balance |-> effective_balances[k]]],
                     indices |-> [k \in 1 .. n |-> k - 1],
                     seed |-> Seed(pivot, [round \in 1 .. SHUFFLE_ROUND_COUNT |->
                                               [position \in 1 .. n |-> bit]]),
                     random_byte |-> random_byte,
                     i |-> 0,
                     pc |-> "start"]
    /\ pre = state
    /\ op = NoCall
    /\ hist = 0

NextProposer == EnterProposerLoop \/ ProposerIteration

\* a running loop goes on to its next iteration
SpecProposer == InitProposer /\ [][NextProposer]_vars /\ WF_vars(NextProposer)

\* candidate j passes the acceptance test effective_balance * 255 >= MAX_EFFECTIVE_BALANCE *
\* random_byte
PassesAcceptance(j) ==
    At(state.validators, candidate_index(state, j)).effective_balance * 255
        >= MAX_EFFECTIVE_BALANCE * state.random_byte[j + 1]

\* the result of a finished call: an error for no indices, otherwise the candidate of the
\* first iteration that passes the acceptance test, a member of indices
ProposerResult ==
    (state.pc = "done") =>
        IF Len(state.indices) = 0
        THEN op.result = "err"
        ELSE /\ op.result = "ok"
             /\ op.ret[1] \in Range(state.indices)
             /\ \E j \in 0 .. Len(state.indices) - 1 :
                    /\ PassesAcceptance(j)
                    /\ \A earlier \in 0 .. j - 1 : ~PassesAcceptance(earlier)
                    /\ op.ret[1] = candidate_index(state, j)

\* some member of indices has the maximal effective balance
HasFullCandidate ==
    \E k \in 1 .. Len(state.indices) :
        At(state.validators, state.indices[k]).effective_balance = MAX_EFFECTIVE_BALANCE

\* C27 as stated: compute_proposer_index terminates for every state, indices and seed, with
\* an error for empty indices and otherwise with the member of indices the acceptance test
\* effective_balance * 255 >= MAX_EFFECTIVE_BALANCE * random_byte selects.
C27_ProposerSelectionTerminates == []ProposerResult /\ <>(state.pc = "done")

\* C27, amended: compute_proposer_index returns an error for empty indices and otherwise
\* the candidate of the first iteration that passes the acceptance test, a member of
\* indices and the same for the same state, indices and seed; the loop terminates whenever
\* indices is empty or some member of indices has the effective balance
\* MAX_EFFECTIVE_BALANCE, which passes the test for every random byte.
C27_ProposerSelectionTerminatesWithFullCandidate ==
    /\ []ProposerResult
    /\ (Len(state.indices) = 0 \/ HasFullCandidate) ~> (state.pc = "done")

\* the loop rejected a candidate and returned the next one, which has the maximal effective
\* balance and the largest random byte
C27_Witness ==
    /\ state.pc = "done"
    /\ op.result = "ok"
    /\ state.i > 0
    /\ At(state.validators, op.ret[1]).effective_balance = MAX_EFFECTIVE_BALANCE
    /\ state.random_byte[(state.i % Len(state.indices)) + 1] = MAX_RANDOM_BYTE

----------------------------------------------------------------------------
(* Fork choice: get_weight, get_proposer_score, Store::get_ancestor *)

PROPOSER_SCORE_BOOST == 40

\* B256::ZERO, with block roots as the numbers from 1 on
B256_ZERO == 0

\* validators of the justified state
ForkValidators == 2

\* epoch of the justified state
ForkEpoch == 2

LatestMessage(epoch, root) == [epoch |-> epoch, root |-> root]

\* the fields of Store that the weight and the proposer head read; a map is a function
\* whose domain is the set of its keys
Store(time, justified_state, finalized_epoch, proposer_boost_root, equivocating_indices, blocks, block_timeliness, latest_messages, unrealized_justifications) ==
    [time |-> time,
     genesis_time |-> 0,
     justified_checkpoint |-> Checkpoint(ForkEpoch, 1),
     finalized_checkpoint |-> Checkpoint(finalized_epoch, 1),
     proposer_boost_root |-> proposer_boost_root,
     equivocating_indices |-> equivocating_indices,
     blocks |-> blocks,
     block_timeliness |-> block_timeliness,
     checkpoint_states |-> [c \in {Checkpoint(ForkEpoch, 1)} |-> justified_state],
     latest_messages |-> latest_messages,
     unrealized_justifications |-> unrealized_justifications]

\* walks the parent links while the block is later than the slot
RECURSIVE get_ancestor(_, _, _)
get_ancestor(store, root, slot) ==
    LET block == store.blocks[root]
    IN  IF block.slot > slot
        THEN get_ancestor(store, block.parent_root, slot)
        ELSE root

calculate_committee_fraction(s, committee_percent) ==
    ((get_total_active_balance(s) \div SLOTS_PER_EPOCH) * committee_percent) \div 100

get_proposer_score(store) ==
    LET justified_checkpoint_state == store.checkpoint_states[store.justified_checkpoint]
        committee_weight == get_total_active_balance(justified_checkpoint_state) \div SLOTS_PER_EPOCH
    IN  (committee_weight * PROPOSER_SCORE_BOOST) \div 100

\* the sum of get_weight over the unslashed validators that is_active_validator accepts
attestation_score(store, root) ==
    LET s == store.checkpoint_states[store.justified_checkpoint]
        unslashed_and_active_indices ==
            {i \in Range(get_active_validator_indices(s, get_current_epoch(s))) :
                 ~At(s.validators, i).slashed}
    IN  SumEffectiveBalance(s,
            {i \in unslashed_and_active_indices :
                 /\ i \in DOMAIN store.latest_messages
                 /\ i \notin Range(store.equivocating_indices)
                 /\ get_ancestor(store, store.latest_messages[i].root, store.blocks[root].slot) = root})

\* a variant that boosts the proposer_boost_root alone and none of its ancestors
get_weight_boosted_root_only(store, root) ==
    IF store.proposer_boost_root = B256_ZERO
    THEN attestation_score(store, root)
    ELSE attestation_score(store, root)
             + (IF store.proposer_boost_root = root THEN get_proposer_score(store) ELSE 0)

get_weight(store, root) ==
    IF store.proposer_boost_root = B256_ZERO
    THEN attestation_score(store, root)
    ELSE LET proposer_score ==
                 IF get_ancestor(store, store.proposer_boost_root, store.blocks[root].slot) = root
                 THEN get_proposer_score(store)
                 ELSE 0
         IN  attestation_score(store, root) + proposer_score

GetWeight ==
    /\ op.name = "init"
    /\ \E root \in DOMAIN state.blocks :
           /\ op' = Call("get_weight", [root |-> root], "ok", get_weight(state, root))
           /\ pre' = state
           /\ UNCHANGED <<state, hist>>

\* the validators a justified state can hold: active since genesis, slashed, exited before
\* the justified epoch, and eligible but not yet activated
ForkValidatorKinds ==
    {Validator(1, Credentials(BLS_WITHDRAWAL_PREFIX, 0, 1), MAX_EFFECTIVE_BALANCE, FALSE, GENESIS_EPOCH, GENESIS_EPOCH, FAR_FUTURE_EPOCH, FAR_FUTURE_EPOCH),
     Validator(1, Credentials(BLS_WITHDRAWAL_PREFIX, 0, 1), MAX_EFFECTIVE_BALANCE, TRUE, GENESIS_EPOCH, GENESIS_EPOCH, FAR_FUTURE_EPOCH, FAR_FUTURE_EPOCH),
     Validator(1, Credentials(BLS_WITHDRAWAL_PREFIX, 0, 1), MAX_EFFECTIVE_BALANCE, FALSE, GENESIS_EPOCH, GENESIS_EPOCH, 1, FAR_FUTURE_EPOCH),
     Validator(1, Credentials(BLS_WITHDRAWAL_PREFIX, 0, 1), MAX_EFFECTIVE_BALANCE, FALSE, 1, FAR_FUTURE_EPOCH, FAR_FUTURE_EPOCH, FAR_FUTURE_EPOCH)}

\* block 1 is the anchor, at the first slot of the justified epoch; blocks 2 and 3 form a chain or two branches, and every block
\* is later than its parent
ForkBlockTrees ==
    {[r \in 1 .. 3 |-> BeaconBlock(slots[r], 0, parents[r], <<>>)] :
         parents \in {<<B256_ZERO, 1, 2>>, <<B256_ZERO, 1, 1>>},
         slots \in {<<ForkEpoch * SLOTS_PER_EPOCH, ForkEpoch * SLOTS_PER_EPOCH + 1, ForkEpoch * SLOTS_PER_EPOCH + d>> : d \in {2, 3}}}

JustifiedState(validators) == [slot |-> ForkEpoch * SLOTS_PER_EPOCH, validators |-> validators]

InitWeight ==
    /\ \E n \in 1 .. ForkValidators :
       \E validators \in [1 .. n -> ForkValidatorKinds] :
       \E blocks \in ForkBlockTrees :
       \E votes \in [0 .. n - 1 -> {B256_ZERO, 2, 3}] :
       \E equivocating \in {<<>>, <<0>>, [i \in 1 .. n |-> i - 1]} :
       \E boost \in {B256_ZERO, 2, 3} :
           state = Store(0, JustifiedState(validators), GENESIS_EPOCH, boost, equivocating, blocks,
                         <<>>,
                         [i \in {j \in 0 .. n - 1 : votes[j] # B256_ZERO} |-> LatestMessage(ForkEpoch, votes[i])],
                         <<>>)
    /\ pre = state
    /\ op = NoCall
    /\ hist = <<>>

NextWeight == GetWeight

SpecWeight == InitWeight /\ [][NextWeight]_vars

\* the blocks on the parent chain of a block, the block itself included
RECURSIVE AncestorChain(_, _)
AncestorChain(store, root) ==
    IF root \notin DOMAIN store.blocks
    THEN {}
    ELSE {root} \cup AncestorChain(store, store.blocks[root].parent_root)

BoostApplies(store, root) ==
    store.proposer_boost_root # B256_ZERO /\ root \in AncestorChain(store, store.proposer_boost_root)

CountedVoters(store, root) ==
    LET s == store.checkpoint_states[store.justified_checkpoint]
    IN  {i \in Indices(s.validators) :
             /\ ActiveAt(At(s.validators, i), get_current_epoch(s))
             /\ ~At(s.validators, i).slashed
             /\ i \notin Range(store.equivocating_indices)
             /\ i \in DOMAIN store.latest_messages
             /\ root \in AncestorChain(store, store.latest_messages[i].root)}

\* C28: the attestation part of get_weight(root), the weight less the proposer score of a
\* boosted root, is exactly the sum of the effective balances of the validators of the
\* justified state that are active, unslashed, not in equivocating_indices and whose latest
\* message is for a block with root on its parent chain; an equivocating validator adds
\* nothing whatever its latest message is.
C28_WeightCountsActiveNonEquivocating ==
    op.name = "get_weight" =>
        LET root == op.args.root
            s == pre.checkpoint_states[pre.justified_checkpoint]
        IN  op.ret - (IF BoostApplies(pre, root) THEN get_proposer_score(pre) ELSE 0)
                = SumEffectiveBalance(s, CountedVoters(pre, root))

\* C29 as stated: the proposer score is part of get_weight(root) only when root is the
\* proposer_boost_root itself; for every other root, the ancestors of the boosted block
\* included, and whenever proposer_boost_root is zero, the weight is the attestation score.
C29_BoostOnlyForBoostRoot ==
    op.name = "get_weight" =>
        op.ret = attestation_score(pre, op.args.root)
                     + (IF pre.proposer_boost_root # B256_ZERO /\ op.args.root = pre.proposer_boost_root
                        THEN get_proposer_score(pre)
                        ELSE 0)

\* C29 amended: the proposer score is part of get_weight(root) exactly when
\* proposer_boost_root is not zero and root is the boosted block or one of its ancestors;
\* for every other root, and whenever proposer_boost_root is zero, the weight is the
\* attestation score alone.
C29_BoostForBoostRootAndAncestors ==
    op.name = "get_weight" =>
        op.ret = attestation_score(pre, op.args.root)
                     + (IF BoostApplies(pre, op.args.root) THEN get_proposer_score(pre) ELSE 0)

\* an ancestor of the boosted block received the boost
C29_Witness ==
    /\ op.name = "get_weight"
    /\ pre.proposer_boost_root = 3
    /\ op.args.root = 2
    /\ pre.blocks[3].parent_root = 2
    /\ get_proposer_score(pre) > 0
    /\ op.ret = attestation_score(pre, 2) + get_proposer_score(pre)

----------------------------------------------------------------------------
(* Fork choice: Store::get_proposer_head *)

REORG_HEAD_WEIGHT_THRESHOLD == 20

REORG_PARENT_WEIGHT_THRESHOLD == 160

REORG_MAX_EPOCHS_SINCE_FINALIZATION == 1

SECONDS_PER_SLOT == 12

INTERVALS_PER_SLOT == 3

\* validators of the justified state, all of them active
HeadValidators == 3

\* a proposal is asked for a slot at most this far after the head
MaxProposalDelay == 2

\* `.get(&head_root).unwrap_or(&true)`: a block without an entry counts as timely
is_head_late(store, head_root) ==
    ~(IF head_root \in DOMAIN store.block_timeliness THEN store.block_timeliness[head_root] ELSE TRUE)

is_shuffling_stable(slot) == slot % SLOTS_PER_EPOCH # 0

\* the equality of two Option values: both None, or both Some with equal checkpoints
is_ffg_competitive(store, head_root, parent_root) ==
    LET head == IF head_root \in DOMAIN store.unrealized_justifications
                THEN <<store.unrealized_justifications[head_root]>> ELSE <<>>
        parent == IF parent_root \in DOMAIN store.unrealized_justifications
                  THEN <<store.unrealized_justifications[parent_root]>> ELSE <<>>
    IN  head = parent

is_proposing_on_time(store) ==
    LET time_into_slot == (store.time - store.genesis_time) % SECONDS_PER_SLOT
        proposer_reorg_cutoff == (SECONDS_PER_SLOT \div INTERVALS_PER_SLOT) \div 2
    IN  time_into_slot <= proposer_reorg_cutoff

\* the subtraction is one of u64: the stores below keep the finalized epoch at or before
\* the epoch of every proposal slot, so that it never goes below zero
is_finalization_ok(store, slot) ==
    LET epochs_since_finalization == compute_epoch_at_slot(slot) - store.finalized_checkpoint.epoch
    IN  epochs_since_finalization <= REORG_MAX_EPOCHS_SINCE_FINALIZATION

is_head_weak(store, head_root) ==
    LET justified_state == store.checkpoint_states[store.justified_checkpoint]
        reorg_threshold == calculate_committee_fraction(justified_state, REORG_HEAD_WEIGHT_THRESHOLD)
        head_weight == get_weight(store, head_root)
    IN  head_weight < reorg_threshold

is_parent_strong(store, parent_root) ==
    LET justified_state == store.checkpoint_states[store.justified_checkpoint]
        parent_threshold == calculate_committee_fraction(justified_state, REORG_PARENT_WEIGHT_THRESHOLD)
        parent_weight == get_weight(store, parent_root)
    IN  parent_weight > parent_threshold

\* a variant that re-orgs a timely head too
get_proposer_head_any_timeliness(store, head_root, slot) ==
    IF head_root \notin DOMAIN store.blocks
    THEN Outcome("panic", B256_ZERO)
    ELSE LET head_block == store.blocks[head_root]
             parent_root == head_block.parent_root
         IN  IF parent_root \notin DOMAIN store.blocks
             THEN Outcome("panic", B256_ZERO)
             ELSE LET parent_block == store.blocks[parent_root]
                      single_slot_reorg == parent_block.slot + 1 = head_block.slot /\ head_block.slot + 1 = slot
                  IN  IF store.proposer_boost_root = head_root
                      THEN Outcome("panic", B256_ZERO)
                      ELSE IF /\ is_shuffling_stable(slot)
                              /\ is_ffg_competitive(store, head_root, parent_root)
                              /\ is_finalization_ok(store, slot)
                              /\ is_proposing_on_time(store)
                              /\ single_slot_reorg
                              /\ is_head_weak(store, head_root)
                              /\ is_parent_strong(store, parent_root)
                           THEN Outcome("ok", parent_root)
                           ELSE Outcome("ok", head_root)

\* the two `expect`s and the `assert!` panic
get_proposer_head(store, head_root, slot) ==
    IF head_root \notin DOMAIN store.blocks
    THEN Outcome("panic", B256_ZERO)
    ELSE LET head_block == store.blocks[head_root]
             parent_root == head_block.parent_root
         IN  IF parent_root \notin DOMAIN store.blocks
             THEN Outcome("panic", B256_ZERO)
             ELSE LET parent_block == store.blocks[parent_root]
                      head_late == is_head_late(store, head_root)
                      shuffling_stable == is_shuffling_stable(slot)
                      ffg_competitive == is_ffg_competitive(store, head_root, parent_root)
                      finalization_ok == is_finalization_ok(store, slot)
                      proposing_on_time == is_proposing_on_time(store)
                      parent_slot_ok == parent_block.slot + 1 = head_block.slot
                      current_time_ok == head_block.slot + 1 = slot
                      single_slot_reorg == parent_slot_ok /\ current_time_ok
                  IN  IF store.proposer_boost_root = head_root
                      THEN Outcome("panic", B256_ZERO)
                      ELSE IF /\ head_late
                              /\ shuffling_stable
                              /\ ffg_competitive
                              /\ finalization_ok
                              /\ proposing_on_time
                              /\ single_slot_reorg
                              /\ is_head_weak(store, head_root)
                              /\ is_parent_strong(store, parent_root)
                           THEN Outcome("ok", parent_root)
                           ELSE Outcome("ok", head_root)

GetProposerHead ==
    /\ op.name = "init"
    /\ \E head_root \in DOMAIN state.blocks :
       \E slot \in (state.blocks[head_root].slot + 1) .. (state.blocks[head_root].slot + MaxProposalDelay) :
           LET out == get_proposer_head(state, head_root, slot)
           IN  /\ op' = Call("get_proposer_head", [head_root |-> head_root, slot |-> slot], out.result, out.val)
               /\ pre' = state
               /\ UNCHANGED <<state, hist>>

ActiveForkValidator == Validator(1, Credentials(BLS_WITHDRAWAL_PREFIX, 0, 1), MAX_EFFECTIVE_BALANCE, FALSE, GENESIS_EPOCH, GENESIS_EPOCH, FAR_FUTURE_EPOCH, FAR_FUTURE_EPOCH)

\* no entry at all, or an entry for each of the blocks 2 and 3
BlockTimeliness == {[r \in {} |-> TRUE]} \cup [{2, 3} -> BOOLEAN]

\* no entry, the same checkpoint for every block, a later one for block 3, or an entry
\* for block 3 alone
UnrealizedJustifications ==
    {[r \in {} |-> Checkpoint(ForkEpoch, 1)],
     [r \in 1 .. 3 |-> Checkpoint(ForkEpoch, 1)],
     [r \in 1 .. 3 |-> IF r = 3 THEN Checkpoint(ForkEpoch + 1, 3) ELSE Checkpoint(ForkEpoch, 1)],
     [r \in {3} |-> Checkpoint(ForkEpoch, 1)]}

InitProposerHead ==
    /\ \E votes \in [0 .. HeadValidators - 1 -> {B256_ZERO, 2, 3}] :
       \E blocks \in ForkBlockTrees :
       \E boost \in {B256_ZERO, 2, 3} :
       \E timeliness \in BlockTimeliness :
       \E unrealized \in UnrealizedJustifications :
       \E time \in {2 * SECONDS_PER_SLOT + 2, 2 * SECONDS_PER_SLOT + 3} :
       \E finalized_epoch \in {GENESIS_EPOCH, ForkEpoch} :
           state = Store(time, JustifiedState([i \in 1 .. HeadValidators |-> ActiveForkValidator]),
                         finalized_epoch, boost, <<>>, blocks, timeliness,
                         [i \in {j \in 0 .. HeadValidators - 1 : votes[j] # B256_ZERO} |-> LatestMessage(ForkEpoch, votes[i])],
                         unrealized)
    /\ pre = state
    /\ op = NoCall
    /\ hist = <<>>

NextProposerHead == GetProposerHead

SpecProposerHead == InitProposerHead /\ [][NextProposerHead]_vars

\* the eight conditions of the re-org, for a head whose parent is in the store
ReorgConditions(store, head_root, slot) ==
    LET head_block == store.blocks[head_root]
        parent_root == head_block.parent_root
        parent_block == store.blocks[parent_root]
        justified_state == store.checkpoint_states[store.justified_checkpoint]
        committee_weight == get_total_active_balance(justified_state) \div SLOTS_PER_EPOCH
    IN  /\ head_root \in DOMAIN store.block_timeliness /\ ~store.block_timeliness[head_root]
        /\ slot % SLOTS_PER_EPOCH # 0
        /\ \/ {head_root, parent_root} \cap DOMAIN store.unrealized_justifications = {}
           \/ /\ {head_root, parent_root} \subseteq DOMAIN store.unrealized_justifications
              /\ store.unrealized_justifications[head_root] = store.unrealized_justifications[parent_root]
        /\ compute_epoch_at_slot(slot) <= store.finalized_checkpoint.epoch + REORG_MAX_EPOCHS_SINCE_FINALIZATION
        /\ parent_block.slot + 1 = head_block.slot
        /\ head_block.slot + 1 = slot
        /\ (store.time - store.genesis_time) % SECONDS_PER_SLOT <= SECONDS_PER_SLOT \div (2 * INTERVALS_PER_SLOT)
        /\ get_weight(store, head_root) < (committee_weight * REORG_HEAD_WEIGHT_THRESHOLD) \div 100
        /\ get_weight(store, parent_root) > (committee_weight * REORG_PARENT_WEIGHT_THRESHOLD) \div 100

\* C30 as stated: get_proposer_head(head_root, slot) returns the parent root of the head
\* exactly when the head is recorded as late, slot is not the first of its epoch, head and
\* parent have the same unrealized justification, finalization is recent, the parent is
\* one slot before the head and the head one slot before slot, the proposer is on time,
\* the head weight is below and the parent weight above its threshold; in every other
\* case it returns head_root.
C30_ProposerHeadReorgsExactlyWhen ==
    op.name = "get_proposer_head" =>
        /\ op.result = "ok"
        /\ op.ret = IF /\ pre.blocks[op.args.head_root].parent_root \in DOMAIN pre.blocks
                       /\ ReorgConditions(pre, op.args.head_root, op.args.slot)
                    THEN pre.blocks[op.args.head_root].parent_root
                    ELSE op.args.head_root

\* C30 amended: for a head whose parent block is in the store and that is not the
\* proposer_boost_root, get_proposer_head returns the parent root exactly when the eight
\* conditions hold and head_root in every other case; for a head without a parent block
\* in the store, or equal to proposer_boost_root, it panics.
C30_ProposerHeadReorgsExactlyWhenBoostWornOff ==
    op.name = "get_proposer_head" =>
        LET head_root == op.args.head_root
            parent_root == pre.blocks[head_root].parent_root
        IN  IF parent_root \notin DOMAIN pre.blocks \/ pre.proposer_boost_root = head_root
            THEN op.result = "panic"
            ELSE /\ op.result = "ok"
                 /\ op.ret = IF ReorgConditions(pre, head_root, op.args.slot) THEN parent_root ELSE head_root

\* a late and weak head was replaced by its strong parent
C30_Witness ==
    /\ op.name = "get_proposer_head"
    /\ op.result = "ok"
    /\ op.args.head_root = 3
    /\ op.ret = 2
    /\ pre.proposer_boost_root # 3
    /\ ~pre.block_timeliness[3]

----------------------------------------------------------------------------
(* Executor: ReamExecutor::spawn_cancellable, ReamExecutor::shutdown *)

\* tasks started with spawn_cancellable
MaxTasks == 1

\* calls of shutdown()
MaxShutdowns == 2

\* Here `state` is the executor and its tasks. The broadcast channel is the number `tail` of
\* messages sent to it; a receiver is the position of the next message it reads, so that
\* recv() is ready exactly when the position is below the tail (with Ok(()) or, once the
\* one-slot buffer was overwritten, with Err(Lagged): the `_ =` branch of a select takes
\* either). `interrupted` says that Ctrl-C was delivered to the process.
Task(receiver, kind, started_at) ==
    [receiver |-> receiver, kind |-> kind, work |-> "pending", pc |-> "spawned",
     handle |-> <<>>, started_at |-> started_at, polled_at |-> 0]

\* a variant in which the task subscribes on its first poll
handed_receiver_subscribed_on_poll(task, tail) == tail

\* `let shutdown = self.shutdown.subscribe();` runs in spawn_cancellable, before the task is
\* handed to the runtime: the receiver future_fn gets is the one subscribed then
handed_receiver(task, tail) == task.receiver

\* the closure of test_cancellable_task and its kin: a long-running ("endless") or a
\* finishing ("finite") piece of work selected against shutdown.recv()
SpawnCancellable ==
    /\ Len(state.tasks) < MaxTasks
    /\ \E kind \in {"endless", "finite"} :
           /\ state' = [state EXCEPT !.tasks = Append(@, Task(state.tail, kind, state.shutdowns))]
           /\ op' = Call("spawn_cancellable", [kind |-> kind], "ok", Len(state.tasks) + 1)
    /\ pre' = state
    /\ UNCHANGED hist

\* `let _ = self.shutdown.send(());`: with no receiver left the send fails and nothing is kept
Shutdown ==
    /\ state.shutdowns < MaxShutdowns
    /\ LET receiver_count == Cardinality({t \in DOMAIN state.tasks : state.tasks[t].pc # "done"})
       IN  state' = [state EXCEPT !.shutdowns = @ + 1,
                                  !.tail = IF receiver_count > 0 THEN @ + 1 ELSE @]
    /\ op' = Call("shutdown", <<>>, "ok", <<>>)
    /\ pre' = state
    /\ UNCHANGED hist

\* the work of a finishing task becomes ready
WorkCompletes(t) ==
    /\ t \in DOMAIN state.tasks
    /\ state.tasks[t].kind = "finite"
    /\ state.tasks[t].work = "pending"
    /\ state.tasks[t].pc # "done"
    /\ state' = [state EXCEPT !.tasks[t].work = "ready"]
    /\ op' = Call("work", [task |-> t], "ok", <<>>)
    /\ pre' = state
    /\ UNCHANGED hist

CtrlC ==
    /\ ~state.interrupted
    /\ state' = [state EXCEPT !.interrupted = TRUE]
    /\ op' = Call("ctrl_c", <<>>, "ok", <<>>)
    /\ pre' = state
    /\ UNCHANGED hist

\* the runtime polls task t: on the first poll future_fn(shutdown) builds the future, then
\* the inner select takes a ready branch of the work and shutdown.recv() and the outer one
\* a ready branch of that future and ctrl_c(); with none ready the task waits to be woken
Poll(t) ==
    /\ t \in DOMAIN state.tasks
    /\ LET task == state.tasks[t]
           receiver == IF task.pc = "spawned" THEN handed_receiver(task, state.tail) ELSE task.receiver
           outcomes == {<<"cancelled">> : x \in {0} \cap (IF receiver < state.tail THEN {0} ELSE {})}
                           \cup {<<"completed">> : x \in {0} \cap (IF task.work = "ready" THEN {0} ELSE {})}
                           \cup {<<>> : x \in {0} \cap (IF state.interrupted THEN {0} ELSE {})}
           polled_at == IF task.pc = "spawned" THEN state.shutdowns ELSE task.polled_at
       IN  /\ task.pc \in {"spawned", "selecting"}
           /\ IF outcomes = {}
              THEN /\ task.pc = "spawned"
                   /\ state' = [state EXCEPT !.tasks[t].pc = "selecting",
                                             !.tasks[t].receiver = receiver,
                                             !.tasks[t].polled_at = polled_at]
                   /\ op' = Call("poll", [task |-> t], "running", <<>>)
              ELSE \E outcome \in outcomes :
                       /\ state' = [state EXCEPT !.tasks[t].pc = "done",
                                                 !.tasks[t].receiver = receiver,
                                                 !.tasks[t].polled_at = polled_at,
                                                 !.tasks[t].handle = <<outcome>>]
                       /\ op' = Call("poll", [task |-> t], "ok", outcome)
    /\ pre' = state
    /\ UNCHANGED hist

InitExecutor ==
    /\ state = [tail |-> 0, shutdowns |-> 0, interrupted |-> FALSE, tasks |-> <<>>]
    /\ pre = state
    /\ op = NoCall
    /\ hist = <<>>

NextExecutor ==
    \/ SpawnCancellable
    \/ Shutdown
    \/ CtrlC
    \/ \E t \in 1 .. MaxTasks : WorkCompletes(t)
    \/ \E t \in 1 .. MaxTasks : Poll(t)

\* the runtime goes on polling every task that is ready to make progress
SpecExecutor == InitExecutor /\ [][NextExecutor]_vars /\ \A t \in 1 .. MaxTasks : WF_vars(Poll(t))

\* task t, or a task that was never started where there is none
TaskOf(t) == IF t \in DOMAIN state.tasks THEN state.tasks[t] ELSE Task(0, "none", MaxShutdowns + 1)

\* task t was started before the first shutdown() and shutdown() has been called
CancelledAfterStart(t) == TaskOf(t).started_at = 0 /\ state.shutdowns > 0

SignalDelivered ==
    \A t \in DOMAIN state.tasks :
        /\ (CancelledAfterStart(t) /\ TaskOf(t).pc # "done") => TaskOf(t).receiver < state.tail
        /\ (TaskOf(t).pc = "done" /\ TaskOf(t).kind = "endless" /\ ~state.interrupted) =>
               TaskOf(t).handle = << <<"cancelled">> >>

\* C31: a task started with spawn_cancellable before shutdown() is called has the signal on
\* the receiver handed to it, whether its first poll comes before or after the shutdown()
\* call; if its work does not finish first and no Ctrl-C is delivered, the task observes
\* the signal and its JoinHandle resolves to Some of the value it returns on cancellation.
C31_CancellableTaskSeesShutdown ==
    /\ []SignalDelivered
    /\ \A t \in 1 .. MaxTasks :
           (CancelledAfterStart(t) /\ TaskOf(t).kind = "endless")
               ~> (/\ TaskOf(t).pc = "done"
                   /\ (TaskOf(t).handle = << <<"cancelled">> >> \/ state.interrupted))

\* shutdown() was called before the first poll of a task, and the task was cancelled
C31_Witness ==
    \E t \in DOMAIN state.tasks :
        /\ state.tasks[t].kind = "endless"
        /\ state.tasks[t].started_at = 0
        /\ state.tasks[t].polled_at > 0
        /\ ~state.interrupted
        /\ state.tasks[t].handle = << <<"cancelled">> >>

----------------------------------------------------------------------------
(* Executor: ReamExecutor::spawn_many *)

\* tasks supplied to spawn_many
MaxManyTasks == 3

\* `.filter_map(|r| r.ok().flatten())` over the slots from position i on: a JoinError and a
\* None are dropped, the rest keeps its order
RECURSIVE filter_map_ok_flatten(_, _)
filter_map_ok_flatten(results, i) ==
    IF i > Len(results)
    THEN <<>>
    ELSE LET r == results[i][1]
             some == IF r.result = "ok" THEN r.val ELSE <<>>
         IN  some \o filter_map_ok_flatten(results, i + 1)

\* a variant that yields the outputs in the order in which the tasks finished
collect_results_as_finished(slots, finished) ==
    filter_map_ok_flatten([k \in 1 .. Len(finished) |-> slots[finished[k]]], 1)

\* `join_all(futures).await` keeps one slot per handle, in the order of the handles
collect_results(slots, finished) == filter_map_ok_flatten(slots, 1)

\* Here `state` is the tasks spawn_many started with spawn_cancellable, each with the value
\* its JoinHandle resolved to, and the task that joins them: the slots join_all has filled
\* and the value of the handle spawn_many returned; `hist` is the order in which the tasks
\* finished. Task i returns i, as in test_spawn_many.
SpawnMany ==
    /\ op.name = "init"
    /\ \E n \in 0 .. MaxManyTasks :
           /\ state' = [tasks |-> [i \in 1 .. n |-> <<>>],
                        slots |-> [i \in 1 .. n |-> <<>>],
                        handle |-> <<>>]
           /\ op' = Call("spawn_many", [n |-> n], "running", <<>>)
    /\ pre' = state
    /\ UNCHANGED hist

\* task t finishes: with its output, with None after Ctrl-C, or with a panic
TaskFinishes(t) ==
    /\ op.name # "init"
    /\ t \in DOMAIN state.tasks
    /\ state.tasks[t] = <<>>
    /\ \E out \in {Outcome("ok", <<t>>), Outcome("ok", <<>>), Outcome("panic", <<>>)} :
           state' = [state EXCEPT !.tasks[t] = <<out>>]
    /\ op' = Call("task", [task |-> t], "ok", <<>>)
    /\ hist' = Append(hist, t)
    /\ pre' = state

\* the joining task is polled: join_all takes the values of the handles that have resolved
\* and is ready when every slot is filled
JoinPoll ==
    /\ op.name # "init"
    /\ state.handle = <<>>
    /\ LET slots == [i \in DOMAIN state.tasks |-> state.tasks[i]]
       IN  /\ slots # state.slots \/ Len(slots) = 0
           /\ IF \A i \in DOMAIN slots : slots[i] # <<>>
              THEN /\ state' = [state EXCEPT !.slots = slots,
                                             !.handle = <<collect_results(slots, hist)>>]
                   /\ op' = Call("join_all", <<>>, "ok", collect_results(slots, hist))
              ELSE /\ state' = [state EXCEPT !.slots = slots]
                   /\ op' = Call("join_all", <<>>, "running", <<>>)
    /\ pre' = state
    /\ UNCHANGED hist

InitSpawnMany ==
    /\ state = [tasks |-> <<>>, slots |-> <<>>, handle |-> <<>>]
    /\ pre = state
    /\ op = NoCall
    /\ hist = <<>>

NextSpawnMany == SpawnMany \/ JoinPoll \/ \E t \in 1 .. MaxManyTasks : TaskFinishes(t)

SpecSpawnMany == InitSpawnMany /\ [][NextSpawnMany]_vars

\* the outputs of the tasks from t on that completed, in the order of supply
RECURSIVE CompletedOutputs(_)
CompletedOutputs(t) ==
    IF t > Len(state.tasks)
    THEN <<>>
    ELSE (IF state.tasks[t] = << Outcome("ok", <<t>>) >> THEN <<t>> ELSE <<>>) \o CompletedOutputs(t + 1)

\* C32: the handle spawn_many returns resolves only after all supplied tasks have finished,
\* to the outputs of the tasks that completed, in the order in which the tasks were
\* supplied, whatever the order in which they finished.
C32_SpawnManyKeepsSupplyOrder ==
    state.handle # <<>> =>
        /\ \A t \in DOMAIN state.tasks : state.tasks[t] # <<>>
        /\ state.handle[1] = CompletedOutputs(1)

\* the tasks finished in another order than they were supplied in, and two of them completed
C32_Witness ==
    /\ state.handle # <<>>
    /\ Len(state.handle[1]) >= 2
    /\ \E k \in 1 .. Len(hist) - 1 : hist[k] > hist[k + 1]

----------------------------------------------------------------------------
(* SSZ encoding of the consensus containers *)

\* bytes of a u64, of a length offset, of a root, of a public key and of a signature
U64Bytes == 2

OffsetBytes == 1

RootBytes == 1

PubKeyBytes == 1

SignatureBytes == 2

\* the longest list of attesting indices
MaxAttestingIndices == 2

\* little-endian bytes of an unsigned integer
RECURSIVE encode_uint(_, _)
encode_uint(n, width) ==
    IF width = 0 THEN <<>> ELSE <<n % 256>> \o encode_uint(n \div 256, width - 1)

\* a variant that reads the bytes most significant first
RECURSIVE decode_uint_big_endian(_)
decode_uint_big_endian(bytes) ==
    IF Len(bytes) = 0
    THEN 0
    ELSE bytes[Len(bytes)] + 256 * decode_uint_big_endian(SubSeq(bytes, 1, Len(bytes) - 1))

RECURSIVE decode_uint(_)
decode_uint(bytes) ==
    IF Len(bytes) = 0 THEN 0 ELSE bytes[1] + 256 * decode_uint(Tail(bytes))

Slice(bytes, from, len) == SubSeq(bytes, from + 1, from + len)

Checkpoint_ssz_fixed_len == U64Bytes + RootBytes

Checkpoint_as_ssz_bytes(c) == encode_uint(c.epoch, U64Bytes) \o c.root

Checkpoint_from_ssz_bytes(bytes) ==
    IF Len(bytes) # Checkpoint_ssz_fixed_len
    THEN Outcome("err", <<>>)
    ELSE Outcome("ok", Checkpoint(decode_uint(Slice(bytes, 0, U64Bytes)), Slice(bytes, U64Bytes, RootBytes)))

AttestationData_ssz_fixed_len == 2 * U64Bytes + RootBytes + 2 * Checkpoint_ssz_fixed_len

AttestationData_as_ssz_bytes(d) ==
    encode_uint(d.slot, U64Bytes) \o encode_uint(d.index, U64Bytes) \o d.beacon_block_root
        \o Checkpoint_as_ssz_bytes(d.source) \o Checkpoint_as_ssz_bytes(d.target)

AttestationData_from_ssz_bytes(bytes) ==
    IF Len(bytes) # AttestationData_ssz_fixed_len
    THEN Outcome("err", <<>>)
    ELSE LET source == Checkpoint_from_ssz_bytes(Slice(bytes, 2 * U64Bytes + RootBytes, Checkpoint_ssz_fixed_len))
             target == Checkpoint_from_ssz_bytes(Slice(bytes, 2 * U64Bytes + RootBytes + Checkpoint_ssz_fixed_len, Checkpoint_ssz_fixed_len))
         IN  Outcome("ok", AttestationData(decode_uint(Slice(bytes, 0, U64Bytes)),
                                           decode_uint(Slice(bytes, U64Bytes, U64Bytes)),
                                           Slice(bytes, 2 * U64Bytes, RootBytes),
                                           source.val, target.val))

\* `buf.extend_from_slice(&self.signature)`
BlsSignature_ssz_append(signature) == signature

\* `signature.copy_from_slice(bytes)` panics for a slice of another length
BlsSignature_from_ssz_bytes(bytes) ==
    IF Len(bytes) # SignatureBytes THEN Outcome("panic", <<>>) ELSE Outcome("ok", bytes)

RECURSIVE encode_list(_)
encode_list(items) ==
    IF Len(items) = 0 THEN <<>> ELSE encode_uint(Head(items), U64Bytes) \o encode_list(Tail(items))

RECURSIVE decode_list(_)
decode_list(bytes) ==
    IF Len(bytes) = 0
    THEN <<>>
    ELSE <<decode_uint(Slice(bytes, 0, U64Bytes))>> \o decode_list(SubSeq(bytes, U64Bytes + 1, Len(bytes)))

IndexedAttestation_fixed_portion == OffsetBytes + AttestationData_ssz_fixed_len + SignatureBytes

\* the fixed portion holds the offset of the list, the data and the signature; the list
\* follows it
IndexedAttestation_as_ssz_bytes(a) ==
    encode_uint(IndexedAttestation_fixed_portion, OffsetBytes)
        \o AttestationData_as_ssz_bytes(a.data)
        \o BlsSignature_ssz_append(a.signature)
        \o encode_list(a.attesting_indices)

IndexedAttestation_from_ssz_bytes(bytes) ==
    IF Len(bytes) < IndexedAttestation_fixed_portion
    THEN Outcome("err", <<>>)
    ELSE LET offset == decode_uint(Slice(bytes, 0, OffsetBytes))
             data == AttestationData_from_ssz_bytes(Slice(bytes, OffsetBytes, AttestationData_ssz_fixed_len))
             signature == BlsSignature_from_ssz_bytes(Slice(bytes, OffsetBytes + AttestationData_ssz_fixed_len, SignatureBytes))
             list == SubSeq(bytes, IndexedAttestation_fixed_portion + 1, Len(bytes))
         IN  IF \/ offset # IndexedAttestation_fixed_portion
                \/ Len(list) % U64Bytes # 0
                \/ Len(list) \div U64Bytes > MaxAttestingIndices
             THEN Outcome("err", <<>>)
             ELSE Outcome("ok", IndexedAttestation(decode_list(list), data.val, signature.val))

Validator_ssz_fixed_len == PubKeyBytes + RootBytes + U64Bytes + 1 + 4 * U64Bytes

Validator_as_ssz_bytes(v) ==
    v.pubkey \o v.withdrawal_credentials \o encode_uint(v.effective_balance, U64Bytes)
        \o <<IF v.slashed THEN 1 ELSE 0>>
        \o encode_uint(v.activation_eligibility_epoch, U64Bytes) \o encode_uint(v.activation_epoch, U64Bytes)
        \o encode_uint(v.exit_epoch, U64Bytes) \o encode_uint(v.withdrawable_epoch, U64Bytes)

\* a bool is the byte 0 or 1
Validator_from_ssz_bytes(bytes) ==
    LET after_key == PubKeyBytes + RootBytes
        slashed == bytes[after_key + U64Bytes + 1]
        epochs == after_key + U64Bytes + 1
    IN  IF Len(bytes) # Validator_ssz_fixed_len
        THEN Outcome("err", <<>>)
        ELSE IF slashed > 1
        THEN Outcome("err", <<>>)
        ELSE Outcome("ok", Validator(Slice(bytes, 0, PubKeyBytes), Slice(bytes, PubKeyBytes, RootBytes),
                                     decode_uint(Slice(bytes, after_key, U64Bytes)), slashed = 1,
                                     decode_uint(Slice(bytes, epochs, U64Bytes)),
                                     decode_uint(Slice(bytes, epochs + U64Bytes, U64Bytes)),
                                     decode_uint(Slice(bytes, epochs + 2 * U64Bytes, U64Bytes)),
                                     decode_uint(Slice(bytes, epochs + 3 * U64Bytes, U64Bytes))))

as_ssz_bytes(kind, value) ==
    CASE kind = "Checkpoint" -> Checkpoint_as_ssz_bytes(value)
      [] kind = "AttestationData" -> AttestationData_as_ssz_bytes(value)
      [] kind = "IndexedAttestation" -> IndexedAttestation_as_ssz_bytes(value)
      [] kind = "Validator" -> Validator_as_ssz_bytes(value)

from_ssz_bytes(kind, bytes) ==
    CASE kind = "Checkpoint" -> Checkpoint_from_ssz_bytes(bytes)
      [] kind = "AttestationData" -> AttestationData_from_ssz_bytes(bytes)
      [] kind = "IndexedAttestation" -> IndexedAttestation_from_ssz_bytes(bytes)
      [] kind = "Validator" -> Validator_from_ssz_bytes(bytes)

\* `T::from_ssz_bytes(&value.as_ssz_bytes())`
EncodeDecode ==
    /\ op.name = "init"
    /\ LET bytes == as_ssz_bytes(state.kind, state.value)
           decoded == from_ssz_bytes(state.kind, bytes)
       IN  op' = Call("from_ssz_bytes", [bytes |-> bytes], decoded.result, decoded.val)
    /\ pre' = state
    /\ UNCHANGED <<state, hist>>

\* u64 values with a low byte, a high byte, both and none
U64Values == {0, 1, 256, 256 ^ U64Bytes - 1}

SszRoots == [1 .. RootBytes -> {0, 255}]

SszCheckpoints == {Checkpoint(epoch, root) : epoch \in U64Values, root \in SszRoots}

SszAttestationData ==
    {AttestationData(slot, 1, root, source, Checkpoint(256, [i \in 1 .. RootBytes |-> 255])) :
         slot \in {0, 256}, root \in SszRoots, source \in SszCheckpoints}

SszIndexLists == UNION {[1 .. n -> {0, 256, 256 ^ U64Bytes - 1}] : n \in 0 .. MaxAttestingIndices}

SszValues ==
    {[kind |-> "Checkpoint", value |-> c] : c \in SszCheckpoints}
        \cup {[kind |-> "AttestationData", value |-> d] : d \in SszAttestationData}
        \cup {[kind |-> "IndexedAttestation", value |-> IndexedAttestation(indices, d, signature)] :
                  indices \in SszIndexLists,
                  d \in {x \in SszAttestationData : x.slot = 256 /\ x.source.epoch \in {1, 256}},
                  signature \in {[i \in 1 .. SignatureBytes |-> 0], [i \in 1 .. SignatureBytes |-> i]}}
        \cup {[kind |-> "Validator",
               value |-> Validator([i \in 1 .. PubKeyBytes |-> 7], root, balance, slashed, 0, 1, exit, 256 ^ U64Bytes - 1)] :
                  root \in SszRoots, balance \in U64Values, slashed \in BOOLEAN, exit \in U64Values}

InitSsz ==
    /\ state \in SszValues
    /\ pre = state
    /\ op = NoCall
    /\ hist = <<>>

NextSsz == EncodeDecode

SpecSsz == InitSsz /\ [][NextSsz]_vars

\* C33: for every value v of a consensus container, decoding the SSZ encoding of v
\* succeeds and gives v back: from_ssz_bytes(as_ssz_bytes(v)) == v.
C33_SszDecodeInvertsEncode ==
    op.name = "from_ssz_bytes" => (op.result = "ok" /\ op.ret = pre.value)

\* an indexed attestation with a list of indices above 255 went through the codec
C33_Witness ==
    /\ op.name = "from_ssz_bytes"
    /\ pre.kind = "IndexedAttestation"
    /\ Len(pre.value.attesting_indices) = 2
    /\ pre.value.attesting_indices[1] = 256
    /\ op.ret.attesting_indices[1] = 256

----------------------------------------------------------------------------
(* Participation flags: BeaconState::add_flag, BeaconState::has_flag *)

\* the largest participation byte tried
MaxParticipationByte == 31

AddFlag ==
    /\ op.name = "init"
    /\ \E flag_index \in {TIMELY_SOURCE_FLAG_INDEX, TIMELY_TARGET_FLAG_INDEX, TIMELY_HEAD_FLAG_INDEX} :
           op' = Call("add_flag", [flags |-> state, flag_index |-> flag_index], "ok", add_flag(state, flag_index))
    /\ pre' = state
    /\ UNCHANGED <<state, hist>>

HasFlag ==
    /\ op.name = "init"
    /\ \E flag_index \in {TIMELY_SOURCE_FLAG_INDEX, TIMELY_TARGET_FLAG_INDEX, TIMELY_HEAD_FLAG_INDEX} :
           op' = Call("has_flag", [flags |-> state, flag_index |-> flag_index], "ok", has_flag(state, flag_index))
    /\ pre' = state
    /\ UNCHANGED <<state, hist>>

InitFlags ==
    /\ state \in 0 .. MaxParticipationByte
    /\ pre = state
    /\ op = NoCall
    /\ hist = <<>>

NextFlags == AddFlag \/ HasFlag

SpecFlags == InitFlags /\ [][NextFlags]_vars

\* the bit of value 2^i of a byte is set
BitIsSet(flags, i) == (flags \div (2 ^ i)) % 2 = 1

\* C34: participation flag i occupies the bit of value 2^i of the participation byte:
\* add_flag(flags, i) returns flags with exactly that bit additionally set, and
\* has_flag(flags, i) is true exactly when that bit is set.
C34_FlagIsBitOfValueTwoToTheIndex ==
    /\ op.name = "add_flag" =>
           op.ret = (IF BitIsSet(op.args.flags, op.args.flag_index)
                     THEN op.args.flags
                     ELSE op.args.flags + 2 ^ op.args.flag_index)
    /\ op.name = "has_flag" => (op.ret <=> BitIsSet(op.args.flags, op.args.flag_index))

----------------------------------------------------------------------------
(* Fork choice: Store::get_current_slot, get_voting_source *)

GENESIS_SLOT == 0

\* seconds of store time after genesis
MaxStoreSeconds == 60

\* `self.time - self.genesis_time`
get_slots_since_genesis(store) == store.time - store.genesis_time

get_current_slot(store) == GENESIS_SLOT + get_slots_since_genesis(store)

\* `let current_epoch = compute_epoch_at_slot(self.get_current_slot());` of filter_block_tree
filter_block_tree_current_epoch(store) == compute_epoch_at_slot(get_current_slot(store))

\* a variant that always answers with the unrealized justification
get_voting_source_unrealized(store, block_root) == store.unrealized_justifications[block_root]

\* `let current_epoch = store.get_current_slot();` is compared with the epoch of the block
get_voting_source(store, block_root) ==
    LET block == store.blocks[block_root]
        current_epoch == get_current_slot(store)
        block_epoch == compute_epoch_at_slot(block.slot)
    IN  IF current_epoch > block_epoch
        THEN store.unrealized_justifications[block_root]
        ELSE store.block_states[block_root].current_justified_checkpoint

GetCurrentSlot ==
    /\ op.name = "init"
    /\ op' = Call("get_current_slot", <<>>, "ok", get_current_slot(state))
    /\ pre' = state
    /\ UNCHANGED <<state, hist>>

FilterBlockTreeCurrentEpoch ==
    /\ op.name = "init"
    /\ op' = Call("filter_block_tree", <<>>, "ok", filter_block_tree_current_epoch(state))
    /\ pre' = state
    /\ UNCHANGED <<state, hist>>

GetVotingSource ==
    /\ op.name = "init"
    /\ \E block_root \in DOMAIN state.blocks :
           op' = Call("get_voting_source", [block_root |-> block_root], "ok", get_voting_source(state, block_root))
    /\ pre' = state
    /\ UNCHANGED <<state, hist>>

\* a store some seconds after genesis, with one block in the first or in the second epoch;
\* the post-state of the block has justified the genesis checkpoint, its unrealized
\* justification is the checkpoint of epoch 1
InitStoreTime ==
    /\ \E genesis_time \in {0, 5} :
       \E seconds \in 0 .. MaxStoreSeconds :
       \E slot \in {GENESIS_SLOT, SLOTS_PER_EPOCH - 1, SLOTS_PER_EPOCH} :
           state = [Store(genesis_time + seconds, JustifiedState(<<>>), GENESIS_EPOCH, B256_ZERO, <<>>,
                          [r \in {1} |-> BeaconBlock(slot, 0, B256_ZERO, <<>>)], <<>>, <<>>,
                          [r \in {1} |-> Checkpoint(1, 1)])
                        EXCEPT !.genesis_time = genesis_time]
                       @@ [block_states |-> [r \in {1} |-> [current_justified_checkpoint |-> Checkpoint(GENESIS_EPOCH, 1)]]]
    /\ pre = state
    /\ op = NoCall
    /\ hist = <<>>

NextStoreTime == GetCurrentSlot \/ FilterBlockTreeCurrentEpoch \/ GetVotingSource

SpecStoreTime == InitStoreTime /\ [][NextStoreTime]_vars

\* the slot of the store's time: one slot for every SECONDS_PER_SLOT seconds since genesis
SlotOfStoreTime(store) == GENESIS_SLOT + (store.time - store.genesis_time) \div SECONDS_PER_SLOT

\* C35: get_current_slot returns GENESIS_SLOT + floor((time - genesis_time) /
\* SECONDS_PER_SLOT), one slot for every SECONDS_PER_SLOT seconds of store time, and the
\* epoch filter_block_tree uses is floor(that slot / SLOTS_PER_EPOCH).
C35_CurrentSlotFromSeconds ==
    /\ op.name = "get_current_slot" => op.ret = SlotOfStoreTime(pre)
    /\ op.name = "filter_block_tree" => op.ret = SlotOfStoreTime(pre) \div SLOTS_PER_EPOCH

\* C36: get_voting_source(store, block_root) returns
\* store.unrealized_justifications[block_root] exactly when the epoch of the store's
\* current slot is greater than the epoch of the block's slot, and otherwise the
\* current_justified_checkpoint of the block's post-state.
C36_VotingSourceByEpoch ==
    op.name = "get_voting_source" =>
        LET block_root == op.args.block_root
        IN  op.ret = IF SlotOfStoreTime(pre) \div SLOTS_PER_EPOCH > pre.blocks[block_root].slot \div SLOTS_PER_EPOCH
                     THEN pre.unrealized_justifications[block_root]
                     ELSE pre.block_states[block_root].current_justified_checkpoint

----------------------------------------------------------------------------
(* Epoch processing: BeaconState::process_historical_summaries_update *)

\* the last epoch whose transition is run
MaxHistoricalEpoch == 40

\* the summary of the root buffers, which hold the roots of the slots before s.slot
HistoricalSummary(s) == [block_summary_root |-> s.slot, state_summary_root |-> s.slot]

\* `next_epoch % SLOTS_PER_HISTORICAL_ROOT / SLOTS_PER_EPOCH == 0`: % and / bind alike and
\* group from the left
process_historical_summaries_update(s) ==
    LET next_epoch == get_current_epoch(s) + 1
    IN  IF (next_epoch % SLOTS_PER_HISTORICAL_ROOT) \div SLOTS_PER_EPOCH = 0
        THEN [s EXCEPT !.historical_summaries = Append(@, HistoricalSummary(s))]
        ELSE s

\* Here `state` is the slot and the historical summaries of a beacon state at the last slot
\* of an epoch. The epoch transition runs the update; the slots up to the end of the next
\* epoch then pass.
ProcessHistoricalSummariesUpdate ==
    /\ get_current_epoch(state) < MaxHistoricalEpoch
    /\ LET post == process_historical_summaries_update(state)
       IN  /\ state' = [post EXCEPT !.slot = @ + SLOTS_PER_EPOCH]
           /\ op' = Call("process_historical_summaries_update", <<>>, "ok", post.historical_summaries)
    /\ pre' = state
    /\ UNCHANGED hist

InitHistorical ==
    /\ \E epoch \in 0 .. MaxHistoricalEpoch :
           state = [slot |-> epoch * SLOTS_PER_EPOCH + SLOTS_PER_EPOCH - 1, historical_summaries |-> <<>>]
    /\ pre = state
    /\ op = NoCall
    /\ hist = <<>>

NextHistorical == ProcessHistoricalSummariesUpdate

SpecHistorical == InitHistorical /\ [][NextHistorical]_vars

\* C37: process_historical_summaries_update appends exactly one HistoricalSummary when
\* current_epoch + 1 is a multiple of SLOTS_PER_HISTORICAL_ROOT / SLOTS_PER_EPOCH and leaves
\* historical_summaries unchanged at every other epoch, so that at most one summary is
\* added per SLOTS_PER_HISTORICAL_ROOT slots.
C37_OneSummaryPerHistoricalPeriod ==
    op.name = "process_historical_summaries_update" =>
        IF (get_current_epoch(pre) + 1) % (SLOTS_PER_HISTORICAL_ROOT \div SLOTS_PER_EPOCH) = 0
        THEN Len(op.ret) = Len(pre.historical_summaries) + 1
        ELSE op.ret = pre.historical_summaries

----------------------------------------------------------------------------
(* Exit churn over a sequence of exits *)

\* no exit epoch is shared by more validators than the churn limit allows
ChurnWithinLimit(s) ==
    \A k \in 1 .. Len(s.validators) :
        s.validators[k].exit_epoch # FAR_FUTURE_EPOCH =>
            Cardinality({j \in 1 .. Len(s.validators) : s.validators[j].exit_epoch = s.validators[k].exit_epoch})
                <= get_validator_churn_limit(s)

\* an exit epoch assigned by this step is not before any exit epoch assigned earlier
ExitEpochsNonDecreasing ==
    \A k \in 1 .. Len(state.validators) :
        (state.validators[k].exit_epoch = FAR_FUTURE_EPOCH /\ state'.validators[k].exit_epoch # FAR_FUTURE_EPOCH) =>
            \A j \in 1 .. Len(state.validators) :
                state.validators[j].exit_epoch # FAR_FUTURE_EPOCH =>
                    state'.validators[k].exit_epoch >= state.validators[j].exit_epoch

\* C38: from a state in which no epoch has more validators exiting than
\* get_validator_churn_limit(), every initiate_validator_exit call of the epoch, from an
\* exit or from a slashing, leaves no exit epoch shared by more than
\* get_validator_churn_limit() validators, and the exit epoch it assigns is not before
\* those assigned earlier.
C38_ExitChurnBounded ==
    [][ChurnWithinLimit(state) => (ChurnWithinLimit(state') /\ ExitEpochsNonDecreasing)]_vars

\* the exit queue epoch was full: the validator that exited last was moved to the next epoch
C38_Witness ==
    /\ op.name \in {"initiate_validator_exit", "slash_validator"}
    /\ ChurnWithinLimit(pre)
    /\ \E k \in 1 .. Len(state.validators) :
           /\ pre.validators[k].exit_epoch = FAR_FUTURE_EPOCH
           /\ state.validators[k].exit_epoch = compute_activation_exit_epoch(get_current_epoch(state)) + 1
           /\ Cardinality({j \in 1 .. Len(state.validators) :
                               state.validators[j].exit_epoch = compute_activation_exit_epoch(get_current_epoch(state))})
                  = get_validator_churn_limit(state)

----------------------------------------------------------------------------
(* Attester slashings with attesting indices outside the registry *)

\* attester slashings processed in one behaviour
MaxAttesterSlashings == 2

\* lists of attesting indices: validator 0, the first index after the registry, both, and none
ForeignIndexLists(s) == {<<>>, <<0>>, <<Len(s.validators)>>, <<0, Len(s.validators)>>}

IsValidIndexedAttestation ==
    \E indices \in ForeignIndexLists(state),
       signature \in {"unparsable", "invalid", "valid"} :
        LET indexed_attestation ==
                IndexedAttestation(indices,
                                   AttestationData(compute_start_slot_at_epoch(ExitEpoch - 1), 0, 1,
                                                   Checkpoint(GENESIS_EPOCH, 1), Checkpoint(ExitEpoch - 1, 1)),
                                   signature)
            r == is_valid_indexed_attestation(state, indexed_attestation)
        IN  /\ hist < MaxAttesterSlashings
            /\ pre' = state
            /\ hist' = hist + 1
            /\ op' = Call("is_valid_indexed_attestation", indexed_attestation, r.result, r.val)
            /\ UNCHANGED state

\* two attestations of the epoch before with the same indices, which vote for two target
\* roots or for the same one; the signature of each is one of the validators of the
\* registry among its indices
ProcessForeignAttesterSlashing ==
    \E indices \in ForeignIndexLists(state),
       vote \in {"double", "same"},
       signature \in {"invalid", "valid"} :
        LET target_epoch == ExitEpoch - 1
            data_1 == AttestationData(compute_start_slot_at_epoch(target_epoch), 0, 1,
                                      Checkpoint(GENESIS_EPOCH, 1), Checkpoint(target_epoch, 1))
            data_2 == AttestationData(compute_start_slot_at_epoch(target_epoch), 0, 1,
                                      Checkpoint(GENESIS_EPOCH, 1),
                                      Checkpoint(target_epoch, IF vote = "double" THEN 2 ELSE 1))
            attester_slashing ==
                AttesterSlashing(IndexedAttestation(indices, data_1, "valid"),
                                 IndexedAttestation(indices, data_2, signature))
        IN  /\ hist < MaxAttesterSlashings
            /\ \E r \in {process_attester_slashing(state, attester_slashing)} :
                    /\ pre' = state
                    /\ state' = r.val
                    /\ hist' = hist + 1
                    /\ op' = Call("process_attester_slashing", attester_slashing, r.result, <<>>)

InitAttesterSlashing == InitExit

NextAttesterSlashing == IsValidIndexedAttestation \/ ProcessForeignAttesterSlashing

SpecAttesterSlashing == InitAttesterSlashing /\ [][NextAttesterSlashing]_vars

\* C39: is_valid_indexed_attestation never returns true for an indexed attestation with an
\* attesting index that is not in the registry, whatever the signature, and
\* process_attester_slashing never panics: it returns an error or slashes validators of
\* the registry.
C39_ForeignIndexNeverValid ==
    /\ op.name = "is_valid_indexed_attestation" =>
           ((\E k \in 1 .. Len(op.args.attesting_indices) :
                 op.args.attesting_indices[k] >= Len(pre.validators))
                => ~(op.result = "ok" /\ op.ret))
    /\ op.name = "process_attester_slashing" => op.result \in {"ok", "err"}

----------------------------------------------------------------------------
(* Fork choice: Store::update_checkpoints, Store::update_unrealized_checkpoints *)

\* the latest epoch of a checkpoint
MaxCheckpointEpoch == 2

\* calls of the two updates in one behaviour
MaxCheckpointUpdates == 2

\* a variant that also takes a checkpoint of the same epoch
update_checkpoints_or_equal(store, justified_checkpoint, finalized_checkpoint) ==
    LET justified == IF justified_checkpoint.epoch >= store.justified_checkpoint.epoch
                     THEN [store EXCEPT !.justified_checkpoint = justified_checkpoint]
                     ELSE store
    IN  IF finalized_checkpoint.epoch >= justified.finalized_checkpoint.epoch
        THEN [justified EXCEPT !.finalized_checkpoint = finalized_checkpoint]
        ELSE justified

update_checkpoints(store, justified_checkpoint, finalized_checkpoint) ==
    LET justified == IF justified_checkpoint.epoch > store.justified_checkpoint.epoch
                     THEN [store EXCEPT !.justified_checkpoint = justified_checkpoint]
                     ELSE store
    IN  IF finalized_checkpoint.epoch > justified.finalized_checkpoint.epoch
        THEN [justified EXCEPT !.finalized_checkpoint = finalized_checkpoint]
        ELSE justified

update_unrealized_checkpoints(store, unrealized_justified_checkpoint, unrealized_finalized_checkpoint) ==
    LET justified == IF unrealized_justified_checkpoint.epoch > store.unrealized_justified_checkpoint.epoch
                     THEN [store EXCEPT !.unrealized_justified_checkpoint = unrealized_justified_checkpoint]
                     ELSE store
    IN  IF unrealized_finalized_checkpoint.epoch > justified.unrealized_finalized_checkpoint.epoch
        THEN [justified EXCEPT !.unrealized_finalized_checkpoint = unrealized_finalized_checkpoint]
        ELSE justified

StoreCheckpoints == {Checkpoint(epoch, root) : epoch \in 0 .. MaxCheckpointEpoch, root \in {1, 2}}

UpdateCheckpoints ==
    /\ hist < MaxCheckpointUpdates
    /\ \E justified_checkpoint \in StoreCheckpoints, finalized_checkpoint \in StoreCheckpoints :
           /\ state' = update_checkpoints(state, justified_checkpoint, finalized_checkpoint)
           /\ op' = Call("update_checkpoints",
                         [justified_checkpoint |-> justified_checkpoint, finalized_checkpoint |-> finalized_checkpoint],
                         "ok", <<>>)
    /\ pre' = state
    /\ hist' = hist + 1

UpdateUnrealizedCheckpoints ==
    /\ hist < MaxCheckpointUpdates
    /\ \E justified_checkpoint \in StoreCheckpoints, finalized_checkpoint \in StoreCheckpoints :
           /\ state' = update_unrealized_checkpoints(state, justified_checkpoint, finalized_checkpoint)
           /\ op' = Call("update_unrealized_checkpoints",
                         [justified_checkpoint |-> justified_checkpoint, finalized_checkpoint |-> finalized_checkpoint],
                         "ok", <<>>)
    /\ pre' = state
    /\ hist' = hist + 1

\* Here `state` is the four checkpoints of a store justified at epoch 1 and finalized at
\* epoch 0 or 1, the unrealized ones equal to the realized ones as in a store built from an
\* anchor
InitCheckpoints ==
    /\ \E justified \in StoreCheckpoints, finalized \in StoreCheckpoints :
           /\ justified = Checkpoint(1, 1)
           /\ finalized.root = 1
           /\ finalized.epoch <= justified.epoch
           /\ state = [justified_checkpoint |-> justified,
                       finalized_checkpoint |-> finalized,
                       unrealized_justified_checkpoint |-> justified,
                       unrealized_finalized_checkpoint |-> finalized]
    /\ pre = state
    /\ op = NoCall
    /\ hist = 0

NextCheckpoints == UpdateCheckpoints \/ UpdateUnrealizedCheckpoints

SpecCheckpoints == InitCheckpoints /\ [][NextCheckpoints]_vars

\* C40: over any sequence of update_checkpoints and update_unrealized_checkpoints calls the
\* epochs of the four checkpoints of the store never decrease, and a checkpoint is replaced
\* only by one of a greater epoch: one of the same epoch and another root never replaces it.
C40_CheckpointsNeverRegress ==
    [][\A field \in DOMAIN state :
           /\ state'[field].epoch >= state[field].epoch
           /\ state'[field] # state[field] => state'[field].epoch > state[field].epoch]_vars

\* a justified checkpoint of the same epoch and another root was offered and not taken,
\* while the finalized one of the same call was of a later epoch and was taken
C40_Witness ==
    /\ op.name = "update_checkpoints"
    /\ op.args.justified_checkpoint.epoch = pre.justified_checkpoint.epoch
    /\ op.args.justified_checkpoint.root # pre.justified_checkpoint.root
    /\ state.justified_checkpoint = pre.justified_checkpoint
    /\ op.args.finalized_checkpoint.epoch > pre.finalized_checkpoint.epoch
    /\ state.finalized_checkpoint = op.args.finalized_checkpoint

====
